---------------------------- MODULE Spec2Model ----------------------------
(***************************************************************************)
(* VisionParser: a batch pipeline that sends every image of a folder to a  *)
(* vision API, parses the JSON answer into records, aggregates them and    *)
(* writes a CSV.  This module models                                       *)
(*   - services/extractor.py  (ImageDataExtractor.extract_all_info),       *)
(*   - services/processor.py  (ProcessingResult, DataProcessor),           *)
(*   - models/env_config.py   (EnvConfig.get_openai_api_key),              *)
(*   - models/openai_config.py (OpenAIConfig and its setters).             *)
(* Python strings are sequences of one-character strings, so that          *)
(* startswith / endswith / strip / slicing are computed, not assumed.      *)
(***************************************************************************)
EXTENDS Integers, Sequences, FiniteSets, TLC

VARIABLES
    pc,             \* position of the process_images call
    image_files,    \* argument: the list of image paths
    verbose,        \* argument: the verbosity flag
    has_callback,   \* argument: whether a progress_callback was passed
    i,              \* loop index of enumerate(image_files, 1)
    all_results,    \* local accumulator (processor.py:63)
    total_records,  \* local accumulator (processor.py:64)
    failed_images,  \* local accumulator (processor.py:65)
    result,         \* the ProcessingResult returned, NoResult before that
    outcomes,       \* history: what extract_all_info did for each image so far
    events,         \* history: extractor calls and progress callbacks, in order
    worlds,         \* history: what the world answered to each extractor call
    marks,          \* history: per image, whether it was appended to failed_images
    escaped,        \* the exception that left process_images, "" if none
    fields,         \* DataProcessor.fields
    summary,        \* what log_summary reported, <<>> before that
    env_key,        \* value of OPENAI_API_KEY in the environment, or None
    key_outcome,    \* what get_openai_api_key did with env_key
    cfg,            \* the OpenAIConfig object's private fields
    cfg_prev,       \* history: cfg before the last setter write
    cfg_write,      \* history: the last setter write and whether it raised
    folder,         \* the file system at ImageFolderConfig._folder_path
    listing,        \* what the last get_image_files call did
    listing_prev,   \* history: what the get_image_files call before it did
    validated,      \* what Config.validate() did, "idle" before the call
    calls,          \* history: the last two direct extract_all_info calls
    csv_file,       \* the file at DataProcessor.output_file
    saved,          \* history: the last save_to_csv call and whether it raised
    mpc,            \* position of main()
    exit_code,      \* what main() returned, <<>> before that
    main_error,     \* the exception main() caught, "" if none
    csv_initial     \* history: the file at output_file when main() started

vars == <<pc, image_files, verbose, has_callback, i, all_results, total_records,
          failed_images, result, outcomes, events, worlds, marks, escaped,
          fields, summary,
          env_key, key_outcome, cfg, cfg_prev, cfg_write,
          folder, listing, listing_prev, validated,
          calls, csv_file, saved, mpc, exit_code, main_error, csv_initial>>

procVars == <<pc, image_files, verbose, has_callback, i, all_results,
              total_records, failed_images, result, outcomes, events,
              worlds, marks, escaped, fields, summary>>
keyVars == <<env_key, key_outcome>>
cfgVars == <<cfg, cfg_prev, cfg_write>>
folderVars == <<folder, listing, listing_prev, validated>>
csvVars == <<csv_file, saved>>
mainVars == <<mpc, exit_code, main_error, csv_initial>>

-----------------------------------------------------------------------------
(* Python str helpers, on sequences of characters                          *)

\* str.startswith(prefix)
StartsWith(s, p) ==
    /\ Len(p) <= Len(s)
    /\ SubSeq(s, 1, Len(p)) = p

\* str.endswith(suffix)
EndsWith(s, p) ==
    /\ Len(p) <= Len(s)
    /\ SubSeq(s, Len(s) - Len(p) + 1, Len(s)) = p

\* s[n:]
DropFirst(s, n) == SubSeq(s, n + 1, Len(s))

\* s[:-n]
DropLast(s, n) == SubSeq(s, 1, Len(s) - n)

\* the whitespace characters of the model's alphabet
Whitespace == {" ", "\n", "\t", "\r"}

\* str.strip(): remove leading and trailing whitespace
Strip(s) ==
    LET keep == {k \in 1..Len(s) : s[k] \notin Whitespace}
    IN  IF keep = {} THEN <<>>
        ELSE LET lo == CHOOSE k \in keep : \A m \in keep : k <= m
                 hi == CHOOSE k \in keep : \A m \in keep : k >= m
             IN  SubSeq(s, lo, hi)

-----------------------------------------------------------------------------
(* Python values produced by json.loads: a record [t, s] whose tag t is    *)
(* the Python type and whose s is the payload: the characters of a str,    *)
(* the digits of an int, the items of a list, the <<key, value>> pairs of  *)
(* a dict in insertion order.                                              *)

PyStr(chars) == [t |-> "str", s |-> chars]
PyInt(digits) == [t |-> "int", s |-> digits]
PyNone == [t |-> "None", s |-> <<>>]
PyTrue == [t |-> "bool", s |-> <<"1">>]
PyFalse == [t |-> "bool", s |-> <<>>]
PyList(items) == [t |-> "list", s |-> items]
PyDict(pairs) == [t |-> "dict", s |-> pairs]

\* bool(v): Python truthiness, as used by filter(None, ...) and `if records`
Truthy(v) ==
    IF v.t = "int" THEN \E k \in 1..Len(v.s) : v.s[k] \notin {"0", "-"}
    ELSE v.s # <<>>

\* d[key] = value on a dict's pair list: a repeated key keeps its position
\* and takes the last value
DictSet(pairs, key, value) ==
    IF \E k \in 1..Len(pairs) : pairs[k][1] = key
    THEN [k \in 1..Len(pairs) |->
             IF pairs[k][1] = key THEN <<key, value>> ELSE pairs[k]]
    ELSE Append(pairs, <<key, value>>)

\* dict.get(key, default)
DictGet(d, key, default) ==
    IF \E k \in 1..Len(d.s) : d.s[k][1] = key
    THEN LET k == CHOOSE k \in 1..Len(d.s) : d.s[k][1] = key IN d.s[k][2]
    ELSE default

Digits == {"0", "1", "2", "3", "4", "5", "6", "7", "8", "9"}

\* a failed parse: json.JSONDecodeError
ParseFail == [ok |-> FALSE, val |-> PyNone, pos |-> 0]
ParseOk(v, p) == [ok |-> TRUE, val |-> v, pos |-> p]

\* first position >= k of s that holds no JSON whitespace (Len(s)+1 if none)
SkipWs(s, k) ==
    LET stop == {m \in k..Len(s) : s[m] \notin Whitespace}
    IN  IF stop = {} THEN Len(s) + 1
        ELSE CHOOSE m \in stop : \A n \in stop : m <= n

\* does the literal lit stand at position k of s
LitAt(s, k, lit) ==
    /\ k + Len(lit) - 1 <= Len(s)
    /\ SubSeq(s, k, k + Len(lit) - 1) = lit

\* a JSON string starting at the quote s[k]; the alphabet has no backslash,
\* and a raw control character inside a string is rejected (strict mode)
ParseString(s, k) ==
    LET close == {m \in (k + 1)..Len(s) : s[m] = "\""}
    IN  IF close = {} THEN ParseFail
        ELSE LET e == CHOOSE m \in close : \A n \in close : m <= n
                 body == SubSeq(s, k + 1, e - 1)
             IN  IF \E m \in 1..Len(body) : body[m] \in {"\n", "\t", "\r"}
                 THEN ParseFail
                 ELSE ParseOk(PyStr(body), e + 1)

\* a JSON integer starting at s[k]: -?(0|[1-9][0-9]*)
ParseNumber(s, k) ==
    LET d == IF s[k] = "-" THEN k + 1 ELSE k
        nondigit == {m \in d..Len(s) : s[m] \notin Digits}
        stop == IF nondigit = {} THEN Len(s) + 1
                ELSE CHOOSE m \in nondigit : \A n \in nondigit : m <= n
        e == IF d <= Len(s) /\ s[d] = "0" THEN d + 1 ELSE stop
    IN  IF e = d THEN ParseFail
        ELSE ParseOk(PyInt(SubSeq(s, k, e - 1)), e)

RECURSIVE ParseValue(_, _), ParseItems(_, _, _), ParseMembers(_, _, _)

\* the scanner's dispatch on the first character of a value
ParseValue(s, k) ==
    IF k > Len(s) THEN ParseFail
    ELSE IF s[k] = "\"" THEN ParseString(s, k)
    ELSE IF s[k] = "[" THEN
        LET n == SkipWs(s, k + 1)
        IN  IF n <= Len(s) /\ s[n] = "]" THEN ParseOk(PyList(<<>>), n + 1)
            ELSE ParseItems(s, n, <<>>)
    ELSE IF s[k] = "{" THEN
        LET n == SkipWs(s, k + 1)
        IN  IF n <= Len(s) /\ s[n] = "}" THEN ParseOk(PyDict(<<>>), n + 1)
            ELSE ParseMembers(s, n, <<>>)
    ELSE IF LitAt(s, k, <<"n", "u", "l", "l">>) THEN ParseOk(PyNone, k + 4)
    ELSE IF LitAt(s, k, <<"t", "r", "u", "e">>) THEN ParseOk(PyTrue, k + 4)
    ELSE IF LitAt(s, k, <<"f", "a", "l", "s", "e">>) THEN ParseOk(PyFalse, k + 5)
    ELSE IF s[k] \in Digits \cup {"-"} THEN ParseNumber(s, k)
    ELSE ParseFail

\* the items of an array after "[", k at the first character of an item
ParseItems(s, k, acc) ==
    LET v == ParseValue(s, k)
    IN  IF ~v.ok THEN ParseFail
        ELSE LET n == SkipWs(s, v.pos)
                 items == Append(acc, v.val)
             IN  IF n > Len(s) THEN ParseFail
                 ELSE IF s[n] = "]" THEN ParseOk(PyList(items), n + 1)
                 ELSE IF s[n] = "," THEN ParseItems(s, SkipWs(s, n + 1), items)
                 ELSE ParseFail

\* the members of an object after "{", k at the quote of a key
ParseMembers(s, k, acc) ==
    IF k > Len(s) \/ s[k] # "\"" THEN ParseFail
    ELSE LET key == ParseString(s, k)
         IN  IF ~key.ok THEN ParseFail
             ELSE LET c == SkipWs(s, key.pos)
                  IN  IF c > Len(s) \/ s[c] # ":" THEN ParseFail
                      ELSE LET v == ParseValue(s, SkipWs(s, c + 1))
                           IN  IF ~v.ok THEN ParseFail
                               ELSE LET n == SkipWs(s, v.pos)
                                        pairs == DictSet(acc, key.val.s, v.val)
                                    IN  IF n > Len(s) THEN ParseFail
                                        ELSE IF s[n] = "}"
                                        THEN ParseOk(PyDict(pairs), n + 1)
                                        ELSE IF s[n] = ","
                                        THEN ParseMembers(s, SkipWs(s, n + 1), pairs)
                                        ELSE ParseFail

\* json.loads(s): one value between optional whitespace, nothing after it
JsonLoads(s) ==
    LET v == ParseValue(s, SkipWs(s, 1))
    IN  IF ~v.ok THEN ParseFail
        ELSE IF SkipWs(s, v.pos) # Len(s) + 1 THEN ParseFail
        ELSE v

-----------------------------------------------------------------------------
(* services/extractor.py                                                   *)

\* the JSON keys the extractor reads
KeyEmail == <<"e", "m", "a", "i", "l">>
KeyFirstname == <<"f", "i", "r", "s", "t", "n", "a", "m", "e">>
KeyName == <<"n", "a", "m", "e">>
KeyFilename == <<"f", "i", "l", "e">> \o KeyName

\* Path(p).name: the part of the path after its last "/"
PathName(p) ==
    LET slashes == {k \in 1..Len(p) : p[k] = "/"}
    IN  IF slashes = {} THEN p
        ELSE LET last == CHOOSE k \in slashes : \A m \in slashes : k >= m
             IN  SubSeq(p, last + 1, Len(p))

\* the backquote character (a TLA+ string cannot hold it, so it has a name)
Backquote == "BACKQUOTE"

Fence == <<Backquote, Backquote, Backquote>>
FenceJson == Fence \o <<"j", "s", "o", "n">>

\* the removal of the markers without the test for a plain opening fence
CleanContentJsonFenceOnly(raw) ==
    LET c0 == Strip(raw)
        c1 == IF StartsWith(c0, FenceJson) THEN DropFirst(c0, 7) ELSE c0
        c3 == IF EndsWith(c1, Fence) THEN DropLast(c1, 3) ELSE c1
    IN  Strip(c3)

\* extractor.py:102-111, the removal of the JSON markers: three independent
\* tests, each on the text the previous one left
CleanContent(raw) ==
    LET c0 == Strip(raw)
        c1 == IF StartsWith(c0, FenceJson) THEN DropFirst(c0, 7) ELSE c0
        c2 == IF StartsWith(c1, Fence) THEN DropFirst(c1, 3) ELSE c1
        c3 == IF EndsWith(c2, Fence) THEN DropLast(c2, 3) ELSE c2
    IN  Strip(c3)

\* `for data in data_list`: what iterating the parsed value yields; a list
\* yields its items, a dict its keys, a str its characters, anything else
\* raises TypeError
Iterate(v) ==
    IF v.t = "list" THEN [ok |-> TRUE, items |-> v.s]
    ELSE IF v.t = "dict"
    THEN [ok |-> TRUE, items |-> [k \in 1..Len(v.s) |-> PyStr(v.s[k][1])]]
    ELSE IF v.t = "str"
    THEN [ok |-> TRUE, items |-> [k \in 1..Len(v.s) |-> PyStr(<<v.s[k]>>)]]
    ELSE [ok |-> FALSE, items |-> <<>>]

\* a record whose filename is the one the response gives, if it gives one
MakeRecordKeepsFilename(image_path, data) ==
    [filename |-> DictGet(data, KeyFilename, PyStr(PathName(image_path))),
     email |-> DictGet(data, KeyEmail, PyStr(<<>>)),
     firstname |-> DictGet(data, KeyFirstname, PyStr(<<>>)),
     name |-> DictGet(data, KeyName, PyStr(<<>>))]

\* extractor.py:118-125, the record built for one parsed object
MakeRecord(image_path, data) ==
    [filename |-> PyStr(PathName(image_path)),
     email |-> DictGet(data, KeyEmail, PyStr(<<>>)),
     firstname |-> DictGet(data, KeyFirstname, PyStr(<<>>)),
     name |-> DictGet(data, KeyName, PyStr(<<>>))]

\* extractor.py:116-127: one record per item; an item without .get (not a
\* dict) raises AttributeError
FormatResults(image_path, data_list) ==
    LET it == Iterate(data_list)
    IN  IF ~it.ok THEN [ok |-> FALSE, error |-> "TypeError", records |-> <<>>]
        ELSE IF \E k \in 1..Len(it.items) : it.items[k].t # "dict"
        THEN [ok |-> FALSE, error |-> "AttributeError", records |-> <<>>]
        ELSE [ok |-> TRUE, error |-> "",
              records |-> [k \in 1..Len(it.items) |->
                              MakeRecord(image_path, it.items[k])]]

\* What the world outside the program does for one call: whether the image
\* file can be read, and what the API call yields.
\*   api = "error"       chat.completions.create raises
\*   api = "no_choices"  the response has an empty choices list (IndexError)
\*   api = "no_content"  message.content is None (AttributeError on .strip)
\*   api = "text"        message.content is the text `content`
World(readable, api, content) ==
    [readable |-> readable, api |-> api, content |-> content]

Returned(records) ==
    [kind |-> "return", records |-> records, image_path |-> <<>>,
     cause |-> "", requested |-> TRUE]

\* raise OpenAIAPIError(f"JSON parse error: {image_path}", e)
OpenAIAPIError(image_path) ==
    [kind |-> "OpenAIAPIError", records |-> <<>>, image_path |-> image_path,
     cause |-> "JSONDecodeError", requested |-> TRUE]

\* raise ImageProcessingError(image_path, e)
ImageProcessingError(image_path, cause, requested) ==
    [kind |-> "ImageProcessingError", records |-> <<>>,
     image_path |-> image_path, cause |-> cause, requested |-> requested]

\* extract_all_info that sends the request before it reads the image
extract_all_info_requests_first(image_path, w) ==
    IF ~w.readable THEN ImageProcessingError(image_path, "FileNotFoundError", TRUE)
    ELSE IF w.api = "error" THEN ImageProcessingError(image_path, "APIError", TRUE)
    ELSE IF w.api = "no_choices" THEN ImageProcessingError(image_path, "IndexError", TRUE)
    ELSE IF w.api = "no_content" THEN ImageProcessingError(image_path, "AttributeError", TRUE)
    ELSE LET parsed == JsonLoads(CleanContent(w.content))
         IN  IF ~parsed.ok THEN OpenAIAPIError(image_path)
             ELSE LET res == FormatResults(image_path, parsed.val)
                  IN  IF ~res.ok
                      THEN ImageProcessingError(image_path, res.error, TRUE)
                      ELSE Returned(res.records)

\* ImageDataExtractor.extract_all_info(image_path) in world w
extract_all_info(image_path, w) ==
    IF ~w.readable THEN ImageProcessingError(image_path, "FileNotFoundError", FALSE)
    ELSE IF w.api = "error" THEN ImageProcessingError(image_path, "APIError", TRUE)
    ELSE IF w.api = "no_choices" THEN ImageProcessingError(image_path, "IndexError", TRUE)
    ELSE IF w.api = "no_content" THEN ImageProcessingError(image_path, "AttributeError", TRUE)
    ELSE LET parsed == JsonLoads(CleanContent(w.content))
         IN  IF ~parsed.ok THEN OpenAIAPIError(image_path)
             ELSE LET res == FormatResults(image_path, parsed.val)
                  IN  IF ~res.ok
                      THEN ImageProcessingError(image_path, res.error, TRUE)
                      ELSE Returned(res.records)

-----------------------------------------------------------------------------
(* The response texts the API may answer with, written with the builders   *)
(* below: the shape the prompt asks for (extractor.py:78-87) and the ways  *)
(* a model's answer departs from it.                                       *)

Quoted(chars) == <<"\"">> \o chars \o <<"\"">>
Member(key, valueText) == Quoted(key) \o <<":">> \o valueText
Object1(m1) == <<"{">> \o m1 \o <<"}">>
Object2(m1, m2) == <<"{">> \o m1 \o <<",">> \o m2 \o <<"}">>
Object3(m1, m2, m3) == <<"{">> \o m1 \o <<",">> \o m2 \o <<",">> \o m3 \o <<"}">>
Array1(v1) == <<"[">> \o v1 \o <<"]">>
Array2(v1, v2) == <<"[">> \o v1 \o <<",", " ">> \o v2 \o <<"]">>
Array4(v1, v2, v3, v4) ==
    <<"[">> \o v1 \o <<",">> \o v2 \o <<",">> \o v3 \o <<",">> \o v4 \o <<"]">>
FencedJson(text) == FenceJson \o <<"\n">> \o text \o <<"\n">> \o Fence
FencedPlain(text) == Fence \o <<"\n">> \o text \o <<"\n">> \o Fence

RowA == Object1(Member(KeyEmail, Quoted(<<"a">>)))
RowFull == Object3(Member(KeyEmail, Quoted(<<"a">>)),
                   Member(KeyFirstname, Quoted(<<"b">>)),
                   Member(KeyName, Quoted(<<"c">>)))
RowNameOnly == Object1(Member(KeyName, Quoted(<<"d">>)))
RowIntEmail == Object1(Member(KeyEmail, <<"5">>))
RowNullEmail == Object2(Member(KeyEmail, <<"n", "u", "l", "l">>),
                        Member(KeyName, Quoted(<<"c">>)))
RowOwnFilename == Object2(Member(KeyFilename, Quoted(<<"x">>)),
                          Member(KeyEmail, Quoted(<<"a">>)))

TextEmptyArray == <<"[", "]">>
TextOneRow == Array1(RowFull)
TextTwoRows == Array2(RowA, RowNameOnly)
TextFourRows == Array4(RowA, RowNameOnly, RowA, RowIntEmail)
TextGarbage == <<"o", "o", "p", "s">>
TextEmptyObject == <<"{", "}">>
TextNumber == <<"5">>

ResponseTexts ==
    { TextEmptyArray,
      TextOneRow,
      TextTwoRows,
      TextFourRows,
      FencedJson(Array1(RowA)),
      FencedPlain(Array1(RowA)),
      <<" ", "\n">> \o FencedJson(TextEmptyArray) \o <<"\n">>,
      FenceJson \o Fence \o TextEmptyArray,
      TextGarbage,
      <<>>,
      TextEmptyObject,
      RowA,
      TextNumber,
      Array1(TextNumber),
      Array1(RowIntEmail),
      Array1(RowNullEmail),
      Array1(RowOwnFilename) }

\* the answers met while a folder is processed: one of each kind of outcome
ProcessedTexts ==
    { TextEmptyArray,
      TextOneRow,
      TextTwoRows,
      TextFourRows,
      FencedJson(Array1(RowA)),
      TextGarbage,
      TextEmptyObject,
      Array1(TextNumber),
      Array1(RowIntEmail) }

\* answers that are a JSON array of objects, as the prompt asks for
ArrayTexts ==
    { TextEmptyArray, TextOneRow, TextTwoRows, TextFourRows,
      Array1(RowIntEmail), Array1(RowNullEmail), Array1(RowOwnFilename),
      <<" ">> \o TextTwoRows \o <<"\n">>,
      <<"[", "\n", " ">> \o RowA \o <<"\n", "]">> }

\* the text t inside a fence: the opening marker, t set off by sep on both
\* sides, the closing marker, and whitespace pad around the whole
Wrap(t, open, sep, pad) == pad \o open \o sep \o t \o sep \o Fence \o pad

\* the fenced forms of t
Fencings(t) ==
    { Wrap(t, open, sep, pad) :
          open \in {FenceJson, Fence},
          sep \in {<<>>, <<"\n">>, <<"\r", "\n">>},
          pad \in {<<>>, <<" ", "\n">>} }

FencedTexts == UNION { Fencings(t) : t \in ArrayTexts }

\* every way the outside world can answer one extract_all_info call
Worlds ==
    { World(FALSE, "none", <<>>),
      World(TRUE, "error", <<>>),
      World(TRUE, "no_choices", <<>>),
      World(TRUE, "no_content", <<>>) }
    \cup { World(TRUE, "text", t) : t \in ResponseTexts \cup FencedTexts }

\* the answers of the world drawn while process_images runs
ProcessedWorlds ==
    { World(FALSE, "none", <<>>), World(TRUE, "error", <<>>) }
    \cup { World(TRUE, "text", t) : t \in ProcessedTexts }

-----------------------------------------------------------------------------
(* services/processor.py                                                   *)

\* floats that are ratios of integers, kept exact as <<numerator, denominator>>
Ratio(n, d) == <<n, d>>
RatioTimes(r, k) == <<r[1] * k, r[2]>>
RatioEq(r, q) == r[1] * q[2] = q[1] * r[2]
RatioLe(r, q) == r[1] * q[2] <= q[1] * r[2]

\* the dataclass ProcessingResult
ProcessingResult(total, successful, failed, records, results) ==
    [total_images |-> total, successful_images |-> successful,
     failed_images |-> failed, total_records |-> records,
     all_results |-> results]

\* success_rate without the conversion to per cent
success_rate_fraction(r) ==
    IF r.total_images = 0 THEN Ratio(0, 1)
    ELSE Ratio(r.successful_images, r.total_images)

\* ProcessingResult.success_rate
success_rate(r) ==
    IF r.total_images = 0 THEN Ratio(0, 1)
    ELSE RatioTimes(Ratio(r.successful_images, r.total_images), 100)

\* the default of _log_sample_records' max_display parameter
max_display == 3

\* record.get(field, "")
RecordGet(record, field) ==
    IF field \in DOMAIN record THEN record[field] ELSE PyStr(<<>>)

\* s[:n]
Take(s, n) == SubSeq(s, 1, IF n < Len(s) THEN n ELSE Len(s))

\* _log_sample_records raises TypeError when ' - '.join meets a display field
\* that filter(None, ...) kept and that is not a str
LogSampleRaises(records, flds) ==
    \E j \in 1..Len(Take(records, max_display)) :
        \E f \in 1..Len(Take(flds, 2)) :
            LET v == RecordGet(records[j], flds[f])
            IN  Truthy(v) /\ v.t # "str"

ImagePaths == { <<"d", "/", "a">>, <<"e", "/", "b">> }

\* the paths get_image_files hands to process_images in a run of main
ListedPaths ==
    { <<"d", "/", "a", ".", "p", "n", "g">>,
      <<"d", "/", "b", ".", "J", "P", "G">>,
      <<"d", "/", "e", ".", "p", "n", "g">> }

\* the longest image list of a call
MaxImages == 2

ImageLists == UNION { [1..n -> ImagePaths] : n \in 0..MaxImages }

DefaultFields == <<"filename", "email", "firstname", "name">>
FieldLists == { DefaultFields, <<"email", "name">> }

\* self.extractor.extract_all_info(str(image_file)) of processor.py:72, for
\* every image path and every answer of the world
ExtractorCall ==
    [p \in ImagePaths \cup ListedPaths |->
        [w \in Worlds |-> extract_all_info(p, w)]]

\* a callback that is handed the 0-based loop index
CallbackEventZeroBased(idx, total, name) ==
    [ev |-> "callback", idx |-> idx - 1, total |-> total, arg |-> name]

ExtractEvent(idx, total, path) ==
    [ev |-> "extract", idx |-> idx, total |-> total, arg |-> path]
CallbackEvent(idx, total, name) ==
    [ev |-> "callback", idx |-> idx, total |-> total, arg |-> name]

\* an entry that keeps the accumulators of the call before, as attributes of
\* the processor would be kept
EnterKeepsAccumulators(files, v, cb) ==
    /\ image_files' = files
    /\ verbose' = v
    /\ has_callback' = cb
    /\ i' = 1
    /\ pc' = IF files = <<>> THEN "return" ELSE "extract"
    /\ result' = <<>>
    /\ summary' = <<>>
    /\ outcomes' = <<>>
    /\ events' = <<>>
    /\ worlds' = <<>>
    /\ marks' = <<>>
    /\ escaped' = ""
    /\ UNCHANGED <<all_results, total_records, failed_images, fields, keyVars,
                   cfgVars, folderVars, calls, csvVars, mainVars>>

\* entry of DataProcessor.process_images: processor.py:63-65
Enter(files, v, cb) ==
    /\ image_files' = files
    /\ verbose' = v
    /\ has_callback' = cb
    /\ all_results' = <<>>
    /\ total_records' = 0
    /\ failed_images' = <<>>
    /\ i' = 1
    /\ pc' = IF files = <<>> THEN "return" ELSE "extract"
    /\ result' = <<>>
    /\ summary' = <<>>
    /\ outcomes' = <<>>
    /\ events' = <<>>
    /\ worlds' = <<>>
    /\ marks' = <<>>
    /\ escaped' = ""
    /\ UNCHANGED <<fields, keyVars, cfgVars, folderVars, calls, csvVars, mainVars>>

\* the first call of process_images on a processor
Call(files, v, cb) ==
    /\ pc = "idle"
    /\ Enter(files, v, cb)

\* process_images is called again on the same processor and list
CallAgain ==
    /\ pc \in {"returned", "summarised", "raised"}
    /\ Enter(image_files, verbose, has_callback)

\* the try statement with `except ImageProcessingError`: a JSON parse error
\* of the extractor leaves process_images
AfterTryNarrowExcept(image_file, r) ==
    IF r.kind = "OpenAIAPIError"
    THEN [all_results |-> all_results, total_records |-> total_records,
          failed_images |-> failed_images,
          failed |-> FALSE, escaped |-> "OpenAIAPIError"]
    ELSE IF r.kind = "return" /\ r.records # <<>>
            /\ ~(verbose /\ LogSampleRaises(r.records, fields))
    THEN [all_results |-> all_results \o r.records,
          total_records |-> total_records + Len(r.records),
          failed_images |-> failed_images,
          failed |-> FALSE, escaped |-> ""]
    ELSE [all_results |-> all_results,
          total_records |-> total_records,
          failed_images |-> Append(failed_images, PathName(image_file)),
          failed |-> TRUE, escaped |-> ""]

\* the try statement putting the new records in front of the old ones
AfterTryPrepend(image_file, r) ==
    IF r.kind = "return" /\ r.records # <<>>
       /\ ~(verbose /\ LogSampleRaises(r.records, fields))
    THEN [all_results |-> r.records \o all_results,
          total_records |-> total_records + Len(r.records),
          failed_images |-> failed_images,
          failed |-> FALSE, escaped |-> ""]
    ELSE [all_results |-> all_results,
          total_records |-> total_records,
          failed_images |-> Append(failed_images, PathName(image_file)),
          failed |-> TRUE, escaped |-> ""]

\* the try statement with `if records is not None`: an empty list succeeds
AfterTryEmptyIsSuccess(image_file, r) ==
    IF r.kind = "return"
       /\ ~(verbose /\ LogSampleRaises(r.records, fields))
    THEN [all_results |-> all_results \o r.records,
          total_records |-> total_records + Len(r.records),
          failed_images |-> failed_images,
          failed |-> FALSE, escaped |-> ""]
    ELSE [all_results |-> all_results,
          total_records |-> total_records,
          failed_images |-> Append(failed_images, PathName(image_file)),
          failed |-> TRUE, escaped |-> ""]

\* the try statement of processor.py:71-89 for the extractor outcome r of
\* image_file: the accumulators after it, and the exception it lets through
\* (none: `except Exception` catches whatever the extractor or the logging
\* of the sample records raises)
AfterTry(image_file, r) ==
    IF r.kind = "return" /\ r.records # <<>>
       /\ ~(verbose /\ LogSampleRaises(r.records, fields))
    THEN [all_results |-> all_results \o r.records,
          total_records |-> total_records + Len(r.records),
          failed_images |-> failed_images,
          failed |-> FALSE, escaped |-> ""]
    ELSE [all_results |-> all_results,
          total_records |-> total_records,
          failed_images |-> Append(failed_images, PathName(image_file)),
          failed |-> TRUE, escaped |-> ""]

\* one pass through the loop body up to the callback: processor.py:67-89
Extract(w) ==
    /\ pc = "extract"
    /\ LET image_file == image_files[i]
           r == ExtractorCall[image_file][w]
           acc == AfterTry(image_file, r)
       IN  /\ all_results' = acc.all_results
           /\ total_records' = acc.total_records
           /\ failed_images' = acc.failed_images
           /\ marks' = Append(marks, acc.failed)
           /\ escaped' = acc.escaped
           /\ pc' = IF acc.escaped = "" THEN "progress" ELSE "raised"
           /\ outcomes' = Append(outcomes, r)
           /\ events' = Append(events, ExtractEvent(i, Len(image_files), image_file))
    /\ worlds' = Append(worlds, w)
    /\ UNCHANGED <<image_files, verbose, has_callback, i, result, fields,
                   summary, keyVars, cfgVars, folderVars, calls, csvVars, mainVars>>

\* processor.py:91-93 and the step to the next image
Progress ==
    /\ pc = "progress"
    /\ events' = IF has_callback
                 THEN Append(events, CallbackEvent(i, Len(image_files),
                                                   PathName(image_files[i])))
                 ELSE events
    /\ i' = i + 1
    /\ pc' = IF i < Len(image_files) THEN "extract" ELSE "return"
    /\ UNCHANGED <<image_files, verbose, has_callback, all_results,
                   total_records, failed_images, result, outcomes, worlds,
                   marks, escaped, fields, summary, keyVars, cfgVars, folderVars, calls, csvVars, mainVars>>

\* the progress callback itself raises: nothing in process_images catches it
ProgressRaises ==
    /\ pc = "progress"
    /\ has_callback
    /\ events' = Append(events, CallbackEvent(i, Len(image_files),
                                              PathName(image_files[i])))
    /\ pc' = "raised"
    /\ escaped' = "CallbackError"
    /\ UNCHANGED <<image_files, verbose, has_callback, i, all_results,
                   total_records, failed_images, result, outcomes, worlds,
                   marks, fields, summary, keyVars, cfgVars, folderVars, calls, csvVars, mainVars>>

\* KeyboardInterrupt while an image is being extracted: not an Exception,
\* so neither extractor.py:131 nor processor.py:86 catches it
Interrupt ==
    /\ pc = "extract"
    /\ pc' = "raised"
    /\ escaped' = "KeyboardInterrupt"
    /\ UNCHANGED <<image_files, verbose, has_callback, i, all_results,
                   total_records, failed_images, result, outcomes, events,
                   worlds, marks, fields, summary, keyVars, cfgVars, folderVars, calls, csvVars, mainVars>>

\* processor.py:95-101
Return ==
    /\ pc = "return"
    /\ result' = << ProcessingResult(Len(image_files),
                                     Len(image_files) - Len(failed_images),
                                     failed_images, total_records, all_results) >>
    /\ pc' = "returned"
    /\ UNCHANGED <<image_files, verbose, has_callback, i, all_results,
                   total_records, failed_images, outcomes, events, worlds,
                   marks, escaped, fields, summary, keyVars, cfgVars, folderVars, calls, csvVars, mainVars>>

\* DataProcessor.log_summary(result): the figures it reports
LogSummary ==
    /\ pc = "returned"
    /\ summary' = << [images |-> result[1].total_images,
                      successful |-> result[1].successful_images,
                      failed |-> Len(result[1].failed_images),
                      rate |-> success_rate(result[1]),
                      records |-> result[1].total_records,
                      failed_names |-> result[1].failed_images] >>
    /\ pc' = "summarised"
    /\ UNCHANGED <<image_files, verbose, has_callback, i, all_results,
                   total_records, failed_images, result, outcomes, events,
                   worlds, marks, escaped, fields, keyVars, cfgVars, folderVars, calls, csvVars, mainVars>>

NoKey == [set |-> FALSE, value |-> <<>>]
KeyIdle == [kind |-> "idle", value |-> <<>>]
CfgIdle == [api_key |-> <<>>, model |-> "", max_tokens |-> 0,
            temperature |-> Ratio(0, 1)]
WriteIdle == [attr |-> "", raised |-> "", model |-> "", tokens |-> 0,
              temp |-> Ratio(0, 1)]

\* no folder looked at, no listing asked for
NoFolder == [kind |-> "missing", entries |-> {}]
ListingIdle == [kind |-> "idle", files |-> <<>>]
FolderIdle ==
    /\ folder = NoFolder
    /\ listing = ListingIdle
    /\ listing_prev = ListingIdle
    /\ validated = "idle"

\* no file at output_file, nothing saved
NoFile == [exists |-> FALSE, content |-> <<>>, writable |-> TRUE]
CsvIdle ==
    /\ csv_file = NoFile
    /\ saved = <<>>

\* main() not running
MainIdle ==
    /\ mpc = "idle"
    /\ exit_code = <<>>
    /\ main_error = ""
    /\ csv_initial = NoFile

\* a DataProcessor just constructed, no call made yet
ProcIdle ==
    /\ pc = "idle"
    /\ image_files = <<>>
    /\ verbose = TRUE
    /\ has_callback = FALSE
    /\ i = 1
    /\ all_results = <<>>
    /\ total_records = 0
    /\ failed_images = <<>>
    /\ result = <<>>
    /\ summary = <<>>
    /\ outcomes = <<>>
    /\ events = <<>>
    /\ worlds = <<>>
    /\ marks = <<>>
    /\ escaped = ""

Init ==
    /\ ProcIdle
    /\ fields \in FieldLists
    /\ env_key = NoKey
    /\ key_outcome = KeyIdle
    /\ cfg = CfgIdle
    /\ cfg_prev = CfgIdle
    /\ cfg_write = WriteIdle
    /\ FolderIdle
    /\ calls = <<>>
    /\ CsvIdle
    /\ MainIdle

Next ==
    \/ \E files \in ImageLists, v \in BOOLEAN, cb \in BOOLEAN : Call(files, v, cb)
    \/ CallAgain
    \/ \E w \in ProcessedWorlds : Extract(w)
    \/ Progress
    \/ ProgressRaises
    \/ Interrupt
    \/ Return
    \/ LogSummary

Spec == Init /\ [][Next]_vars

-----------------------------------------------------------------------------
(* models/env_config.py                                                    *)

KeyPrefix == <<"s", "k", "-">>
Placeholder ==
    <<"y", "o", "u", "r", "-", "a", "p", "i", "-", "k", "e", "y", "-",
      "h", "e", "r", "e">>
KeyFromTests ==
    <<"s", "k", "-", "t", "e", "s", "t", "1", "2", "3", "4", "5", "6">>
InvalidKeyFromTests ==
    <<"i", "n", "v", "a", "l", "i", "d", "-", "k", "e", "y">>

KeyChars == {"s", "k", "-", " "}

\* the longest key built from KeyChars
MaxKeyLen == 3

KeyValues ==
    UNION { [1..n -> KeyChars] : n \in 0..MaxKeyLen }
    \cup { Placeholder, KeyFromTests, InvalidKeyFromTests,
           KeyPrefix \o Placeholder }

\* the environment: OPENAI_API_KEY unset, or set to a string
Environments == {NoKey} \cup { [set |-> TRUE, value |-> k] : k \in KeyValues }

\* EnvConfig.get("OPENAI_API_KEY"): os.environ.get(key, None)
Get(e) == IF e.set THEN [none |-> FALSE, value |-> e.value]
          ELSE [none |-> TRUE, value |-> <<>>]

KeyRaised(kind) == [kind |-> kind, value |-> <<>>]
KeyReturned(value) == [kind |-> "returned", value |-> value]

\* get_openai_api_key without the format check
get_openai_api_key_no_prefix_check(e) ==
    LET api_key == Get(e)
    IN  IF api_key.none \/ api_key.value = <<>>
        THEN KeyRaised("OpenAIKeyNotFoundError")
        ELSE IF api_key.value = Placeholder
        THEN KeyRaised("OpenAIKeyInvalidError")
        ELSE KeyReturned(api_key.value)

\* EnvConfig.get_openai_api_key()
get_openai_api_key(e) ==
    LET api_key == Get(e)
    IN  IF api_key.none \/ api_key.value = <<>>
        THEN KeyRaised("OpenAIKeyNotFoundError")
        ELSE IF api_key.value = Placeholder
        THEN KeyRaised("OpenAIKeyInvalidError")
        ELSE IF ~StartsWith(api_key.value, KeyPrefix)
        THEN KeyRaised("OpenAIKeyInvalidError")
        ELSE KeyReturned(api_key.value)

\* the call of get_openai_api_key in the environment of the run
GetOpenAIApiKey ==
    /\ key_outcome = KeyIdle
    /\ key_outcome' = get_openai_api_key(env_key)
    /\ UNCHANGED <<env_key, procVars, cfgVars, folderVars, calls, csvVars, mainVars>>

InitKey ==
    /\ ProcIdle
    /\ fields = DefaultFields
    /\ env_key \in Environments
    /\ key_outcome = KeyIdle
    /\ cfg = CfgIdle
    /\ cfg_prev = CfgIdle
    /\ cfg_write = WriteIdle
    /\ FolderIdle
    /\ calls = <<>>
    /\ CsvIdle
    /\ MainIdle

NextKey == GetOpenAIApiKey

SpecKey == InitKey /\ [][NextKey]_vars

-----------------------------------------------------------------------------
(* models/openai_config.py                                                 *)

\* OpenAIConfig.__init__: the four private fields, stored as given
OpenAIConfig(api_key, model, max_tokens, temperature) ==
    [api_key |-> api_key, model |-> model, max_tokens |-> max_tokens,
     temperature |-> temperature]

Models == {"gpt-4o", "gpt-3.5-turbo"}
TokenValues == {-100, -1, 0, 1, 500, 2000}
\* temperatures from -0.1 to 2.1 in steps of 0.1
TemperatureValues == { Ratio(n, 10) : n \in -1..21 }

\* the model setter: no validation
set_model(c, value) ==
    [cfg |-> [c EXCEPT !.model = value], raised |-> ""]

\* the max_tokens setter with `if value < 0`
set_max_tokens_accepts_zero(c, value) ==
    IF value < 0
    THEN [cfg |-> c, raised |-> "InvalidMaxTokensError"]
    ELSE [cfg |-> [c EXCEPT !.max_tokens = value], raised |-> ""]

\* the max_tokens setter
set_max_tokens(c, value) ==
    IF value <= 0
    THEN [cfg |-> c, raised |-> "InvalidMaxTokensError"]
    ELSE [cfg |-> [c EXCEPT !.max_tokens = value], raised |-> ""]

\* the temperature setter with `if not 0.0 <= value < 2.0`
set_temperature_exclusive(c, value) ==
    IF ~(RatioLe(Ratio(0, 1), value) /\ ~RatioLe(Ratio(2, 1), value))
    THEN [cfg |-> c, raised |-> "InvalidTemperatureError"]
    ELSE [cfg |-> [c EXCEPT !.temperature = value], raised |-> ""]

\* the temperature setter: `if not 0.0 <= value <= 2.0`
set_temperature(c, value) ==
    IF ~(RatioLe(Ratio(0, 1), value) /\ RatioLe(value, Ratio(2, 1)))
    THEN [cfg |-> c, raised |-> "InvalidTemperatureError"]
    ELSE [cfg |-> [c EXCEPT !.temperature = value], raised |-> ""]

\* the record of a setter write
Write(attr, raised, model, tokens, temp) ==
    [attr |-> attr, raised |-> raised, model |-> model, tokens |-> tokens,
     temp |-> temp]

\* config.model = value
SetModel(value) ==
    /\ LET w == set_model(cfg, value)
       IN  /\ cfg' = w.cfg
           /\ cfg_write' = Write("model", w.raised, value, 0, Ratio(0, 1))
    /\ cfg_prev' = cfg
    /\ UNCHANGED <<procVars, keyVars, folderVars, calls, csvVars, mainVars>>

\* config.max_tokens = value
SetMaxTokens(value) ==
    /\ LET w == set_max_tokens(cfg, value)
       IN  /\ cfg' = w.cfg
           /\ cfg_write' = Write("max_tokens", w.raised, "", value, Ratio(0, 1))
    /\ cfg_prev' = cfg
    /\ UNCHANGED <<procVars, keyVars, folderVars, calls, csvVars, mainVars>>

\* config.temperature = value
SetTemperature(value) ==
    /\ LET w == set_temperature(cfg, value)
       IN  /\ cfg' = w.cfg
           /\ cfg_write' = Write("temperature", w.raised, "", 0, value)
    /\ cfg_prev' = cfg
    /\ UNCHANGED <<procVars, keyVars, folderVars, calls, csvVars, mainVars>>

\* an OpenAIConfig constructed with any arguments; nothing written yet
InitCfg ==
    /\ ProcIdle
    /\ fields = DefaultFields
    /\ env_key = NoKey
    /\ key_outcome = KeyIdle
    /\ \E m \in Models, t \in TokenValues, temp \in TemperatureValues :
           cfg = OpenAIConfig(KeyFromTests, m, t, temp)
    /\ cfg_prev = cfg
    /\ cfg_write = WriteIdle
    /\ FolderIdle
    /\ calls = <<>>
    /\ CsvIdle
    /\ MainIdle

NextCfg ==
    \/ \E m \in Models : SetModel(m)
    \/ \E t \in TokenValues : SetMaxTokens(t)
    \/ \E temp \in TemperatureValues : SetTemperature(temp)

SpecCfg == InitCfg /\ [][NextCfg]_vars

-----------------------------------------------------------------------------
(* services/extractor.py, called directly                                  *)

\* extractor.extract_all_info(image_path) answered by the world w; a run
\* makes two calls, so that the outcomes of two answers can be compared
ExtractAllInfo(image_path, w) ==
    /\ Len(calls) < 2
    /\ calls' = Append(calls, [image_path |-> image_path, world |-> w,
                               result |-> ExtractorCall[image_path][w]])
    /\ UNCHANGED <<procVars, keyVars, cfgVars, folderVars, csvVars, mainVars>>

InitExtract ==
    /\ ProcIdle
    /\ fields = DefaultFields
    /\ env_key = NoKey
    /\ key_outcome = KeyIdle
    /\ cfg = CfgIdle
    /\ cfg_prev = CfgIdle
    /\ cfg_write = WriteIdle
    /\ FolderIdle
    /\ calls = <<>>
    /\ CsvIdle
    /\ MainIdle

NextExtract == \E p \in ImagePaths, w \in Worlds : ExtractAllInfo(p, w)

SpecExtract == InitExtract /\ [][NextExtract]_vars

-----------------------------------------------------------------------------
(* models/image_folder_config.py                                           *)

\* the characters of the modelled file names, in code point order
AsciiOrder ==
    <<".", "/",
      "A", "B", "C", "D", "E", "F", "G", "H", "I", "J", "K", "L", "M",
      "N", "O", "P", "Q", "R", "S", "T", "U", "V", "W", "X", "Y", "Z",
      "a", "b", "c", "d", "e", "f", "g", "h", "i", "j", "k", "l", "m",
      "n", "o", "p", "q", "r", "s", "t", "u", "v", "w", "x", "y", "z">>

\* ord(c)
Ord(c) == CHOOSE k \in 1..Len(AsciiOrder) : AsciiOrder[k] = c

\* str.lower() of one character: "A".."Z" are 26 places before "a".."z"
LowerChar(c) ==
    IF Ord(c) >= Ord("A") /\ Ord(c) <= Ord("Z")
    THEN AsciiOrder[Ord(c) + 26]
    ELSE c

\* str.lower()
Lower(s) == [k \in 1..Len(s) |-> LowerChar(s[k])]

\* PurePath.suffix: the name from its last dot on, unless that dot is the
\* first or the last character of the name
Suffix(name) ==
    LET dots == {k \in 1..Len(name) : name[k] = "."}
    IN  IF dots = {} THEN <<>>
        ELSE LET d == CHOOSE k \in dots : \A m \in dots : m <= k
             IN  IF 1 < d /\ d < Len(name)
                 THEN SubSeq(name, d, Len(name))
                 ELSE <<>>

SUPPORTED_EXTENSIONS ==
    << <<".", "p", "n", "g">>, <<".", "j", "p", "g">>,
       <<".", "j", "p", "e", "g">>, <<".", "b", "m", "p">>,
       <<".", "t", "i", "f", "f">> >>

\* `x in self.SUPPORTED_EXTENSIONS`
InList(x, list) == \E k \in 1..Len(list) : list[k] = x

RECURSIVE StrLess(_, _)
\* a < b on str: the first differing character decides, a proper prefix is less
StrLess(a, b) ==
    IF b = <<>> THEN FALSE
    ELSE IF a = <<>> THEN TRUE
    ELSE IF Head(a) = Head(b) THEN StrLess(Tail(a), Tail(b))
    ELSE Ord(Head(a)) < Ord(Head(b))

RECURSIVE InsertSorted(_, _)
InsertSorted(sorted, x) ==
    IF sorted = <<>> THEN <<x>>
    ELSE IF StrLess(x, Head(sorted)) THEN <<x>> \o sorted
    ELSE <<Head(sorted)>> \o InsertSorted(Tail(sorted), x)

RECURSIVE Sorted(_)
\* sorted(list) of paths below one folder (POSIX: the order of their names)
Sorted(list) ==
    IF list = <<>> THEN <<>>
    ELSE InsertSorted(Sorted(SubSeq(list, 1, Len(list) - 1)), list[Len(list)])

\* ImageFolderConfig._folder_path
FolderPath == <<"d">>

\* folder_path / name
Join(path, name) == path \o <<"/">> \o name

\* an entry of a directory: its name, and whether it is itself a directory
Entry(name, is_dir) == [name |-> name, is_dir |-> is_dir]

\* what is at _folder_path: nothing, a regular file, or a directory
Folder(kind, entries) == [kind |-> kind, entries |-> entries]

ListingRaised(kind) == [kind |-> kind, files |-> <<>>]
ListingReturned(files) == [kind |-> "returned", files |-> files]

\* validate that also asks for an image
validate_needs_images(f) ==
    IF f.kind = "missing" THEN "ImageFolderNotFoundError"
    ELSE IF \A e \in f.entries :
                ~InList(Lower(Suffix(e.name)), SUPPORTED_EXTENSIONS)
    THEN "NoImageFilesError"
    ELSE ""

\* ImageFolderConfig.validate
validate(f) ==
    IF f.kind = "missing" THEN "ImageFolderNotFoundError" ELSE ""

\* ImageFolderConfig.get_image_files; order is the order in which iterdir()
\* yields the entries of the directory
get_image_files(f, order) ==
    IF validate(f) # "" THEN ListingRaised(validate(f))
    ELSE IF f.kind # "dir" THEN ListingRaised("NotADirectoryError")
    ELSE LET iterdir == [k \in 1..Len(order) |-> Join(FolderPath, order[k].name)]
             found ==
                 Sorted(SelectSeq(iterdir,
                     LAMBDA p : InList(Lower(Suffix(PathName(p))),
                                       SUPPORTED_EXTENSIONS)))
         IN  IF found = <<>>
             THEN ListingRaised("NoImageFilesError")
             ELSE ListingReturned(found)

\* the entries a modelled folder is made of
EntryChoices ==
    { Entry(<<"a", ".", "p", "n", "g">>, FALSE),
      Entry(<<"B", ".", "p", "n", "g">>, FALSE),
      Entry(<<"b", ".", "J", "P", "G">>, FALSE),
      Entry(<<"c", ".", "t", "x", "t">>, FALSE),
      Entry(<<"d", ".", "j", "p", "e", "g">>, FALSE),
      Entry(<<"a", ".", "b", "m", "p">>, FALSE),
      Entry(<<"h", ".", "T", "i", "f", "f">>, FALSE),
      Entry(<<"a", ".", "t", ".", "p", "n", "g">>, FALSE),
      Entry(<<"a", ".", "p", "n", "g", "x">>, FALSE),
      Entry(<<".", "p", "n", "g">>, FALSE),
      Entry(<<"p", "n", "g">>, FALSE),
      Entry(<<"g", ".">>, FALSE),
      Entry(<<"s", "u", "b">>, TRUE),
      Entry(<<"e", ".", "p", "n", "g">>, TRUE) }

\* the largest number of entries of a modelled folder
MaxEntries == 3

Folders ==
    { Folder("missing", {}), Folder("file", {}) } \cup
    { Folder("dir", es) : es \in { s \in SUBSET EntryChoices :
                                       Cardinality(s) <= MaxEntries } }

\* the orders in which iterdir() may yield a set of entries
Orders(es) ==
    { o \in [1..Cardinality(es) -> es] :
          \A j, k \in 1..Cardinality(es) : j # k => o[j] # o[k] }

\* images.get_image_files(), the directory yielding its entries in any order
GetImageFiles ==
    /\ \E order \in Orders(folder.entries) :
           listing' = get_image_files(folder, order)
    /\ listing_prev' = listing
    /\ UNCHANGED <<folder, validated, procVars, keyVars, cfgVars, calls, csvVars, mainVars>>

InitFolder ==
    /\ ProcIdle
    /\ fields = DefaultFields
    /\ env_key = NoKey
    /\ key_outcome = KeyIdle
    /\ cfg = CfgIdle
    /\ cfg_prev = CfgIdle
    /\ cfg_write = WriteIdle
    /\ folder \in Folders
    /\ listing = ListingIdle
    /\ listing_prev = ListingIdle
    /\ validated = "idle"
    /\ calls = <<>>
    /\ CsvIdle
    /\ MainIdle

NextFolder == GetImageFiles

SpecFolder == InitFolder /\ [][NextFolder]_vars

-----------------------------------------------------------------------------
(* models/app_config.py                                                    *)

\* Config(): self.env, self.images, then
\* self.openai = OpenAIConfig(self.env.get_openai_api_key()) with the default
\* model, max_tokens and temperature; a key error leaves the constructor
NewConfig ==
    /\ key_outcome = KeyIdle
    /\ key_outcome' = get_openai_api_key(env_key)
    /\ cfg' = IF key_outcome'.kind = "returned"
              THEN OpenAIConfig(key_outcome'.value, "gpt-4o", 2000, Ratio(0, 1))
              ELSE cfg
    /\ cfg_prev' = cfg'
    /\ UNCHANGED <<env_key, cfg_write, procVars, folderVars, calls, csvVars, mainVars>>

\* Config.validate(): reads self.openai.api_key, then self.images.validate()
ConfigValidate ==
    /\ key_outcome.kind = "returned"
    /\ validated' = validate(folder)
    /\ UNCHANGED <<folder, listing, listing_prev, procVars, keyVars, cfgVars, calls, csvVars, mainVars>>

\* the key values of the tests: unset, empty, placeholder, no prefix, valid
SettingsEnvironments ==
    {NoKey} \cup { [set |-> TRUE, value |-> k] :
                     k \in {<<>>, Placeholder, InvalidKeyFromTests, KeyFromTests} }

\* nothing at the path, a regular file, or a folder of at most one entry
SettingsFolders == { f \in Folders : Cardinality(f.entries) <= 1 }

InitSettings ==
    /\ ProcIdle
    /\ fields = DefaultFields
    /\ env_key \in SettingsEnvironments
    /\ key_outcome = KeyIdle
    /\ cfg = CfgIdle
    /\ cfg_prev = CfgIdle
    /\ cfg_write = WriteIdle
    /\ folder \in SettingsFolders
    /\ listing = ListingIdle
    /\ listing_prev = ListingIdle
    /\ validated = "idle"
    /\ calls = <<>>
    /\ CsvIdle
    /\ MainIdle

NextSettings ==
    \/ NewConfig
    \/ ConfigValidate
    \/ GetImageFiles

SpecSettings == InitSettings /\ [][NextSettings]_vars

-----------------------------------------------------------------------------
(* services/processor.py: save_to_csv, with csv.DictWriter as it is used   *)
(* there (excel dialect, restval "", extrasaction "raise") and csv.reader  *)
(* for reading the file back                                               *)

\* the characters of a field name
FieldChars(field) ==
    CASE field = "filename" -> KeyFilename
      [] field = "email" -> KeyEmail
      [] field = "firstname" -> KeyFirstname
      [] field = "name" -> KeyName

\* the text csv.writer writes for a value: "" for None, the str itself,
\* str(value) for an int
FieldText(v) ==
    CASE v.t = "None" -> <<>>
      [] v.t \in {"str", "int"} -> v.s

RECURSIVE DoubleQuotes(_)
\* every quote character doubled
DoubleQuotes(text) ==
    IF text = <<>> THEN <<>>
    ELSE (IF Head(text) = "\"" THEN <<"\"", "\"">> ELSE <<Head(text)>>)
         \o DoubleQuotes(Tail(text))

\* a writer that never quotes
CsvFieldNeverQuotes(text) == text

\* QUOTE_MINIMAL: a field holding the delimiter, the quote character or a
\* character of the line terminator is written inside quotes
CsvField(text) ==
    IF \E k \in 1..Len(text) : text[k] \in {",", "\"", "\r", "\n"}
    THEN <<"\"">> \o DoubleQuotes(text) \o <<"\"">>
    ELSE text

RECURSIVE JoinFields(_)
JoinFields(texts) ==
    IF Len(texts) = 0 THEN <<>>
    ELSE IF Len(texts) = 1 THEN CsvField(texts[1])
    ELSE CsvField(texts[1]) \o <<",">> \o JoinFields(Tail(texts))

\* writer.writerow(texts): a row that would be empty although it has a field
\* is written as one quoted empty field
CsvRow(texts) ==
    (IF Len(texts) > 0 /\ JoinFields(texts) = <<>>
     THEN <<"\"", "\"">>
     ELSE JoinFields(texts)) \o <<"\r", "\n">>

\* the file at output_file
File(exists, content, writable) ==
    [exists |-> exists, content |-> content, writable |-> writable]

RECURSIVE WriteRows(_, _, _)
\* processor.py:123-124: writerow for each result; a result with a key that
\* is not a field name raises ValueError and ends the writing there
WriteRows(flds, results, written) ==
    IF results = <<>> THEN [content |-> written, raised |-> ""]
    ELSE IF \E key \in DOMAIN Head(results) :
                \A k \in 1..Len(flds) : flds[k] # key
    THEN [content |-> written, raised |-> "ValueError"]
    ELSE WriteRows(flds, Tail(results),
             written \o CsvRow([k \in 1..Len(flds) |->
                                   FieldText(RecordGet(Head(results), flds[k]))]))

\* DataProcessor.save_to_csv(results): open(output_file, "w") empties the
\* file, then the header and the rows are written
save_to_csv(flds, file, results) ==
    IF ~file.writable THEN [file |-> file, raised |-> "PermissionError"]
    ELSE LET header == CsvRow([k \in 1..Len(flds) |-> FieldChars(flds[k])])
             rows == WriteRows(flds, results, header)
         IN  [file |-> File(TRUE, rows.content, TRUE), raised |-> rows.raised]

\* csv.reader taking one character: r holds the reader's state st, the field
\* and the row it is collecting, and the rows it has yielded
ReadChar(r, c) ==
    LET after == IF c = "\r" THEN "AFTER_CR" ELSE "START_RECORD"
    IN  IF r.st = "AFTER_CR" /\ c = "\n"
        THEN [r EXCEPT !.st = "START_RECORD"]
        ELSE IF r.st \in {"START_RECORD", "AFTER_CR"} /\ c \in {"\r", "\n"}
        THEN [r EXCEPT !.st = after, !.rows = Append(@, <<>>)]
        ELSE IF r.st = "IN_QUOTED_FIELD"
        THEN IF c = "\""
             THEN [r EXCEPT !.st = "QUOTE_IN_QUOTED_FIELD"]
             ELSE [r EXCEPT !.field = Append(@, c)]
        ELSE IF r.st = "QUOTE_IN_QUOTED_FIELD" /\ c = "\""
        THEN [r EXCEPT !.st = "IN_QUOTED_FIELD", !.field = Append(@, c)]
        ELSE IF c = ","
        THEN [r EXCEPT !.st = "START_FIELD", !.field = <<>>,
                       !.row = Append(@, r.field)]
        ELSE IF c \in {"\r", "\n"}
        THEN [st |-> after, field |-> <<>>, row |-> <<>>,
              rows |-> Append(r.rows, Append(r.row, r.field))]
        ELSE IF c = "\"" /\ r.st \in {"START_RECORD", "AFTER_CR", "START_FIELD"}
        THEN [r EXCEPT !.st = "IN_QUOTED_FIELD"]
        ELSE [r EXCEPT !.st = "IN_FIELD", !.field = Append(@, c)]

\* the states of the reader that the written files bring it to
ReaderStates ==
    {"START_RECORD", "AFTER_CR", "START_FIELD", "IN_FIELD", "IN_QUOTED_FIELD",
     "QUOTE_IN_QUOTED_FIELD"}

RECURSIVE ReadSpan(_, _, _, _)
\* the reader taking the characters lo..hi of s one after the other: the
\* first half is read to its end before the second half is begun
ReadSpan(s, lo, hi, r) ==
    IF lo > hi THEN r
    ELSE IF lo = hi THEN ReadChar(r, s[lo])
    ELSE LET left == ReadSpan(s, lo, (lo + hi) \div 2, r)
         IN  IF left.st \in ReaderStates
             THEN ReadSpan(s, (lo + hi) \div 2 + 1, hi, left)
             ELSE left

\* list(csv.reader(open(output_file, newline=""))): at the end of the file a
\* row that was begun is yielded
ReadCsv(content) ==
    LET r == ReadSpan(content, 1, Len(content),
                 [st |-> "START_RECORD", field |-> <<>>, row |-> <<>>,
                  rows |-> <<>>])
    IN  IF r.st \in {"START_RECORD", "AFTER_CR"} THEN r.rows
        ELSE Append(r.rows, Append(r.row, r.field))

\* field values: plain, empty, padded, and with each character that needs
\* quoting
CsvValues ==
    { <<"a">>, <<>>, <<" ", "b", " ">>, <<"x", ",", "y">>, <<"\"", "q", "\"">>,
      <<"l", "\n", "m">>, <<"\r", "\n">> }

\* records whose keys are among email and name
CsvRecords ==
    { [name |-> PyStr(v)] : v \in CsvValues }
    \cup { [email |-> PyStr(<<"a">>), name |-> PyStr(<<"c">>)],
           [email |-> PyStr(<<"l", "\n", "m">>), name |-> PyStr(<<"x", ",", "y">>)],
           [email |-> PyStr(<<"a">>)], [email |-> PyInt(<<"5">>)],
           [email |-> PyNone, name |-> PyStr(<<"c">>)],
           [filename |-> PyStr(<<"a">>), email |-> PyStr(<<"a">>),
            firstname |-> PyStr(<<>>), name |-> PyStr(<<>>)] }

\* the longest record list saved
MaxRecords == 2

RecordLists(n) == UNION { [1..m -> CsvRecords] : m \in 0..n }

CsvFieldLists == FieldLists \cup { <<"name">> }

\* what is at output_file before the first save: nothing, a file of an
\* earlier run, a file that cannot be opened for writing
CsvFiles ==
    { NoFile,
      File(TRUE, CsvRow(<<KeyName>>) \o CsvRow(<<<<"o", "l", "d">>>>)
                 \o CsvRow(<<<<"o", "l", "d">>>>) \o CsvRow(<<<<"o", "l", "d">>>>),
           TRUE),
      File(TRUE, <<"o", "l", "d">>, FALSE) }

\* processor.save_to_csv(results); the file is saved twice at most
SaveToCsv(results) ==
    /\ IF saved = <<>> THEN TRUE ELSE saved[1].nth < 2
    /\ LET s == save_to_csv(fields, csv_file, results)
       IN  /\ csv_file' = s.file
           /\ saved' = << [results |-> results, raised |-> s.raised,
                           nth |-> IF saved = <<>> THEN 1 ELSE saved[1].nth + 1] >>
    /\ UNCHANGED <<pc, image_files, verbose, has_callback, i, all_results,
                   total_records, failed_images, result, outcomes, events,
                   worlds, marks, escaped, fields, summary,
                   keyVars, cfgVars, folderVars, calls, mainVars>>

InitCsv ==
    /\ ProcIdle
    /\ fields \in CsvFieldLists
    /\ env_key = NoKey
    /\ key_outcome = KeyIdle
    /\ cfg = CfgIdle
    /\ cfg_prev = CfgIdle
    /\ cfg_write = WriteIdle
    /\ FolderIdle
    /\ calls = <<>>
    /\ csv_file \in CsvFiles
    /\ saved = <<>>
    /\ MainIdle

\* a first save of any record list, a second save of a list of at most one
NextCsv ==
    \/ \E results \in RecordLists(MaxRecords) : saved = <<>> /\ SaveToCsv(results)
    \/ \E results \in RecordLists(1) : saved # <<>> /\ SaveToCsv(results)

SpecCsv == InitCsv /\ [][NextCsv]_vars

-----------------------------------------------------------------------------
(* main.py                                                                 *)

\* the subclasses of EnvConfigError, ImageFolderConfigError and
\* OpenAIConfigError: the classes of main.py:55
ConfigErrors ==
    {"OpenAIKeyNotFoundError", "OpenAIKeyInvalidError",
     "ImageFolderNotFoundError", "NoImageFilesError",
     "InvalidMaxTokensError", "InvalidTemperatureError"}

\* the other subclasses of Exception that the steps of main raise
OtherExceptions ==
    {"NotADirectoryError", "PermissionError", "ValueError", "CallbackError"}

\* main whose handlers leave out `except KeyboardInterrupt`
main_returns_without_interrupt_clause(raised) ==
    IF raised = "" THEN <<0>>
    ELSE IF raised \in ConfigErrors THEN <<1>>
    ELSE IF raised \in OtherExceptions THEN <<1>>
    ELSE <<>>

\* what main returns when its try block ends with `raised` ("" for the end
\* of the block, main.py:53); <<>> stands for an exception no clause of
\* main.py:55-68 catches, which leaves main
main_returns(raised) ==
    IF raised = "" THEN <<0>>
    ELSE IF raised \in ConfigErrors THEN <<1>>
    ELSE IF raised = "KeyboardInterrupt" THEN <<1>>
    ELSE IF raised \in OtherExceptions THEN <<1>>
    ELSE <<>>

\* main ends: its try block is left with `raised`, or runs to its end
MainEnds(raised) ==
    /\ mpc' = "done"
    /\ exit_code' = main_returns(raised)
    /\ main_error' = raised
    /\ UNCHANGED csv_initial

\* main goes on to its next statement
MainGoes(next) ==
    /\ mpc' = next
    /\ UNCHANGED <<exit_code, main_error, csv_initial>>

\* main.py:22: Config(extract_fields=[...])
MainConfig ==
    /\ mpc = "start"
    /\ key_outcome' = get_openai_api_key(env_key)
    /\ cfg' = IF key_outcome'.kind = "returned"
              THEN OpenAIConfig(key_outcome'.value, "gpt-4o", 2000, Ratio(0, 1))
              ELSE cfg
    /\ cfg_prev' = cfg'
    /\ IF key_outcome'.kind = "returned" THEN MainGoes("configured")
       ELSE MainEnds(key_outcome'.kind)
    /\ UNCHANGED <<env_key, cfg_write, procVars, folderVars, calls, csvVars>>

\* main.py:23: config.validate()
MainValidate ==
    /\ mpc = "configured"
    /\ validated' = validate(folder)
    /\ IF validated' = "" THEN MainGoes("validated") ELSE MainEnds(validated')
    /\ UNCHANGED <<folder, listing, listing_prev, procVars, keyVars, cfgVars,
                   calls, csvVars>>

\* main.py:25-39: the client, the extractor and the processor are built, then
\* config.images.get_image_files()
MainGetImageFiles ==
    /\ mpc = "validated"
    /\ \E order \in Orders(folder.entries) :
           listing' = get_image_files(folder, order)
    /\ listing_prev' = listing
    /\ IF listing'.kind = "returned" THEN MainGoes("listed")
       ELSE MainEnds(listing'.kind)
    /\ UNCHANGED <<folder, validated, procVars, keyVars, cfgVars, calls, csvVars>>

\* main.py:45: processor.process_images(image_files, verbose=True) is entered
MainProcess ==
    /\ mpc = "listed"
    /\ pc = "idle"
    /\ Enter(listing.files, TRUE, FALSE)

\* the listed path is a directory: encode_image cannot open it
IsDirectory(path) ==
    \E e \in folder.entries : e.is_dir /\ Join(FolderPath, e.name) = path

\* the steps of process_images while main waits for it
MainExtract(w) ==
    /\ mpc = "listed"
    /\ pc = "extract"
    /\ IsDirectory(image_files[i]) => ~w.readable
    /\ Extract(w)

MainProgress == mpc = "listed" /\ Progress

MainProcessInterrupted == mpc = "listed" /\ Interrupt

MainProcessReturns == mpc = "listed" /\ Return

\* handlers of main that save what process_images had collected when the
\* exception left it
MainCatchSavesCollected ==
    /\ mpc = "listed"
    /\ pc = "raised"
    /\ MainEnds(escaped)
    /\ csv_file' = save_to_csv(fields, csv_file, all_results).file
    /\ UNCHANGED <<procVars, keyVars, cfgVars, folderVars, calls, saved>>

\* an exception leaves process_images and reaches the handlers of main
MainCatch ==
    /\ mpc = "listed"
    /\ pc = "raised"
    /\ MainEnds(escaped)
    /\ UNCHANGED <<procVars, keyVars, cfgVars, folderVars, calls, csvVars>>

\* main.py:48: processor.save_to_csv(result.all_results)
MainSave ==
    /\ mpc = "listed"
    /\ pc = "returned"
    /\ LET s == save_to_csv(fields, csv_file, result[1].all_results)
       IN  /\ csv_file' = s.file
           /\ saved' = << [results |-> result[1].all_results,
                           raised |-> s.raised, nth |-> 1] >>
           /\ IF s.raised = "" THEN MainGoes("saved") ELSE MainEnds(s.raised)
    /\ UNCHANGED <<procVars, keyVars, cfgVars, folderVars, calls>>

\* main.py:51: processor.log_summary(result)
MainLogSummary ==
    /\ mpc = "saved"
    /\ summary' = << [images |-> result[1].total_images,
                      successful |-> result[1].successful_images,
                      failed |-> Len(result[1].failed_images),
                      rate |-> success_rate(result[1]),
                      records |-> result[1].total_records,
                      failed_names |-> result[1].failed_images] >>
    /\ pc' = "summarised"
    /\ MainGoes("summarised")
    /\ UNCHANGED <<image_files, verbose, has_callback, i, all_results,
                   total_records, failed_images, result, outcomes, events,
                   worlds, marks, escaped, fields, keyVars, cfgVars,
                   folderVars, calls, csvVars>>

\* main.py:53: return 0
MainReturn ==
    /\ mpc = "summarised"
    /\ MainEnds("")
    /\ UNCHANGED <<procVars, keyVars, cfgVars, folderVars, calls, csvVars>>

\* the user interrupts main between two of its statements
MainInterrupt ==
    /\ mpc \in {"start", "configured", "validated", "saved", "summarised"}
           \/ (mpc = "listed" /\ pc \in {"idle", "returned"})
    /\ MainEnds("KeyboardInterrupt")
    /\ UNCHANGED <<procVars, keyVars, cfgVars, folderVars, calls, csvVars>>

\* the folders main is run on: nothing, a regular file, or a folder of at
\* most two of a.png, b.JPG, c.txt and the sub-directory e.png
MainFolders ==
    { f \in Folders :
          /\ Cardinality(f.entries) <= 2
          /\ \A e \in f.entries :
                 \/ Join(FolderPath, e.name) \in ListedPaths
                 \/ e.name = <<"c", ".", "t", "x", "t">> }

InitMain ==
    /\ ProcIdle
    /\ fields = DefaultFields
    /\ env_key \in SettingsEnvironments
    /\ key_outcome = KeyIdle
    /\ cfg = CfgIdle
    /\ cfg_prev = CfgIdle
    /\ cfg_write = WriteIdle
    /\ folder \in MainFolders
    /\ listing = ListingIdle
    /\ listing_prev = ListingIdle
    /\ validated = "idle"
    /\ calls = <<>>
    /\ csv_file \in CsvFiles
    /\ saved = <<>>
    /\ mpc = "start"
    /\ exit_code = <<>>
    /\ main_error = ""
    /\ csv_initial = csv_file

NextMain ==
    \/ MainConfig
    \/ MainValidate
    \/ MainGetImageFiles
    \/ MainProcess
    \/ \E w \in ProcessedWorlds : MainExtract(w)
    \/ MainProgress
    \/ MainProcessInterrupted
    \/ MainProcessReturns
    \/ MainCatch
    \/ MainSave
    \/ MainLogSummary
    \/ MainReturn
    \/ MainInterrupt

SpecMain == InitMain /\ [][NextMain]_vars

-----------------------------------------------------------------------------
(* The wiring of main.py:22-48 with any field list: the list given to      *)
(* Config is the processor's `fields`, the extractor is handed the config, *)
(* the images are processed and the results saved.                         *)

\* processor.process_images(image_files, verbose=True) of main.py:45
RunProcess(files) ==
    /\ pc = "idle"
    /\ Enter(files, TRUE, FALSE)

\* processor.save_to_csv(result.all_results) of main.py:48
RunSave ==
    /\ pc = "returned"
    /\ saved = <<>>
    /\ LET s == save_to_csv(fields, csv_file, result[1].all_results)
       IN  /\ csv_file' = s.file
           /\ saved' = << [results |-> result[1].all_results,
                           raised |-> s.raised, nth |-> 1] >>
    /\ UNCHANGED <<procVars, keyVars, cfgVars, folderVars, calls, mainVars>>

InitRun ==
    /\ ProcIdle
    /\ fields \in FieldLists
    /\ env_key = NoKey
    /\ key_outcome = KeyIdle
    /\ cfg = CfgIdle
    /\ cfg_prev = CfgIdle
    /\ cfg_write = WriteIdle
    /\ FolderIdle
    /\ calls = <<>>
    /\ CsvIdle
    /\ MainIdle

NextRun ==
    \/ \E files \in ImageLists : RunProcess(files)
    \/ \E w \in ProcessedWorlds : Extract(w)
    \/ Progress
    \/ Return
    \/ RunSave

SpecRun == InitRun /\ [][NextRun]_vars

-----------------------------------------------------------------------------
(* One processor used for several process_images calls, its results saved  *)
(* after the first                                                         *)

\* a later process_images call on the processor whose first result was saved
RunProcessAgain(files) ==
    /\ pc = "returned"
    /\ saved # <<>>
    /\ Enter(files, TRUE, FALSE)

\* the image lists of these calls: none, one or two of the image paths
CallLists ==
    {<<>>} \cup { <<p>> : p \in ImagePaths }
           \cup { <<p, q>> : p \in ImagePaths, q \in ImagePaths }

\* the answers of the world in these calls: no image, no row, one row
CallWorlds ==
    { World(FALSE, "none", <<>>),
      World(TRUE, "text", TextEmptyArray),
      World(TRUE, "text", TextOneRow) }

NextCalls ==
    \/ \E files \in CallLists : RunProcess(files)
    \/ \E w \in CallWorlds : Extract(w)
    \/ Progress
    \/ Return
    \/ RunSave
    \/ \E files \in CallLists : RunProcessAgain(files)

SpecCalls == InitRun /\ [][NextCalls]_vars

-----------------------------------------------------------------------------
(* Properties of process_images                                            *)

\* the extractor failed on an image: it raised, or returned no record
ExtractorFailed(r) == r.kind # "return" \/ r.records = <<>>

Finished == pc \in {"returned", "summarised"}

ExtractCalls == SelectSeq(events, LAMBDA e : e.ev = "extract")
CallbackCalls == SelectSeq(events, LAMBDA e : e.ev = "callback")

RECURSIVE FailedNamesUpTo(_)
\* the base names of the images among the first k on which the extractor failed
FailedNamesUpTo(k) ==
    IF k = 0 THEN <<>>
    ELSE IF ExtractorFailed(outcomes[k])
         THEN Append(FailedNamesUpTo(k - 1), PathName(image_files[k]))
         ELSE FailedNamesUpTo(k - 1)

RECURSIVE KeptRecordsUpTo(_)
\* the records of the images among the first k that were not recorded as failed
KeptRecordsUpTo(k) ==
    IF k = 0 THEN <<>>
    ELSE IF marks[k] THEN KeptRecordsUpTo(k - 1)
         ELSE KeptRecordsUpTo(k - 1) \o outcomes[k].records

\* C1: whatever the extractor does for an image (records, no record, an
\* exception), process_images goes on: the extractor is called for the images
\* in list order, one call per image, no extractor failure leaves
\* process_images as an exception, image i+1 is reached after image i, and a
\* run that is not interrupted returns a ProcessingResult covering every image.
C1_FailureNeverAborts ==
    /\ escaped \in {"", "KeyboardInterrupt", "CallbackError"}
    /\ Len(ExtractCalls) = Len(outcomes)
    /\ \A k \in 1..Len(ExtractCalls) :
           /\ ExtractCalls[k].idx = k
           /\ ExtractCalls[k].arg = image_files[k]
    /\ pc = "extract" => Len(outcomes) = i - 1 /\ i <= Len(image_files)
    /\ pc = "progress" => Len(outcomes) = i
    /\ pc \in {"return", "returned", "summarised"} =>
           Len(outcomes) = Len(image_files)
    /\ Finished => Len(result) = 1 /\ escaped = ""

\* a finished run of two images whose first image raised and whose second
\* image gave records
C1_Witness ==
    /\ pc = "returned"
    /\ Len(image_files) = 2
    /\ outcomes[1].kind = "OpenAIAPIError"
    /\ outcomes[2].kind = "return"
    /\ outcomes[2].records # <<>>
    /\ Len(result[1].all_results) > 0

\* C2: after process_images, failed_images holds, in processing order, one
\* entry for every image on which the extractor raised or returned no record,
\* and no entry for an image for which it returned records.
C2_FailedImagesAreExtractorFailures ==
    Finished => result[1].failed_images = FailedNamesUpTo(Len(image_files))

\* C3: the counts of the returned ProcessingResult.
C3_ResultCounts ==
    Finished =>
        LET r == result[1]
            withRecords == {k \in 1..Len(outcomes) : ~ExtractorFailed(outcomes[k])}
        IN  /\ r.total_images = Len(image_files)
            /\ r.successful_images + Len(r.failed_images) = r.total_images
            /\ r.successful_images = Cardinality(withRecords)
            /\ r.total_records = Len(r.all_results)
            /\ (Cardinality(withRecords) = Len(image_files) =>
                    r.failed_images = <<>> /\ r.successful_images = r.total_images)

C5_CallbackOncePerImage ==
    /\ ~has_callback => CallbackCalls = <<>>
    /\ \A k \in 1..Len(CallbackCalls) :
           CallbackCalls[k] = CallbackEvent(k, Len(image_files),
                                            PathName(image_files[k]))
    /\ Len(CallbackCalls) <= Len(outcomes)
    /\ \A m \in 1..Len(events) :
           events[m].ev = "callback" =>
               /\ m > 1
               /\ events[m - 1].ev = "extract"
               /\ events[m - 1].idx = events[m].idx
               /\ m < Len(events) =>
                      /\ events[m + 1].ev = "extract"
                      /\ events[m + 1].idx = events[m].idx + 1
    /\ has_callback /\ pc \in {"return", "returned", "summarised"} =>
           Len(CallbackCalls) = Len(image_files)

\* a finished run with a callback over an image that raised, then one that
\* returned no record: two callback invocations
C5_Witness ==
    /\ pc = "returned"
    /\ has_callback
    /\ Len(image_files) = 2
    /\ outcomes[1].kind = "ImageProcessingError"
    /\ outcomes[2].kind = "return"
    /\ outcomes[2].records = <<>>
    /\ Len(CallbackCalls) = 2

EmptyArrayWorld == World(TRUE, "text", TextEmptyArray)

\* C6: when the response text of image k is "[]", extract_all_info returns
\* no record and does not raise, the image is recorded as failed under its
\* base name, and the result does not count it as successful.
C6_EmptyArrayCountsAsFailed ==
    LET empties == {k \in 1..Len(worlds) : worlds[k] = EmptyArrayWorld}
    IN  /\ \A k \in empties :
               /\ outcomes[k].kind = "return"
               /\ outcomes[k].records = <<>>
               /\ marks[k]
               /\ \E m \in 1..Len(failed_images) :
                      failed_images[m] = PathName(image_files[k])
        /\ Finished =>
               /\ result[1].successful_images <= Len(image_files) - Cardinality(empties)
               /\ \A k \in empties :
                      \E m \in 1..Len(result[1].failed_images) :
                          result[1].failed_images[m] = PathName(image_files[k])

\* a finished run of one image answered "[]"
C6_Witness ==
    /\ pc = "returned"
    /\ Len(image_files) = 1
    /\ worlds[1] = EmptyArrayWorld
    /\ result[1].successful_images = 0
    /\ result[1].failed_images = <<PathName(image_files[1])>>

\* the largest total of the ProcessingResults built directly
RateGrid == 10

\* the rates of the ProcessingResults built directly: 0.0 for no image,
\* 100 * successful / total otherwise
RateFormulaOnGrid ==
    \A t \in 0..RateGrid, n \in 0..RateGrid :
        LET rate == success_rate(ProcessingResult(t, n, <<>>, 0, <<>>))
        IN  IF t = 0 THEN rate = Ratio(0, 1)
            ELSE rate[2] # 0 /\ RatioEq(rate, Ratio(100 * n, t))

\* C7: success_rate is 0.0 when total_images = 0 and 100 * successful / total
\* otherwise (the rate as an exact ratio), and the rate of every result of
\* process_images lies in [0, 100].
C7_SuccessRate ==
    /\ RateFormulaOnGrid
    /\ pc = "summarised" =>
           LET r == result[1]
               rate == summary[1].rate
           IN  /\ rate = success_rate(r)
               /\ r.total_images = 0 => rate = Ratio(0, 1)
               /\ r.total_images # 0 =>
                      RatioEq(rate, Ratio(100 * r.successful_images, r.total_images))
               /\ rate[2] > 0
               /\ RatioLe(Ratio(0, 1), rate)
               /\ RatioLe(rate, Ratio(100, 1))

\* a summary of a run of two images of which one succeeded: 50 per cent
C7_Witness ==
    /\ pc = "summarised"
    /\ result[1].total_images = 2
    /\ result[1].successful_images = 1
    /\ RatioEq(summary[1].rate, Ratio(50, 1))

-----------------------------------------------------------------------------
(* Properties of the configuration classes                                 *)

\* C8: get_openai_api_key has exactly one outcome per key value: missing for
\* an unset or empty key, invalid for the placeholder and for every other
\* key that does not start with "sk-", and the key itself otherwise.
C8_KeyClassification ==
    key_outcome # KeyIdle =>
        LET unset == ~env_key.set \/ Len(env_key.value) = 0
            prefixed == /\ env_key.set
                        /\ Len(env_key.value) >= 3
                        /\ env_key.value[1] = "s"
                        /\ env_key.value[2] = "k"
                        /\ env_key.value[3] = "-"
        IN  /\ key_outcome.kind \in {"OpenAIKeyNotFoundError",
                                     "OpenAIKeyInvalidError", "returned"}
            /\ key_outcome.kind = "OpenAIKeyNotFoundError" <=> unset
            /\ key_outcome.kind = "OpenAIKeyInvalidError" <=> ~unset /\ ~prefixed
            /\ key_outcome.kind = "returned" <=> prefixed
            /\ key_outcome.kind = "returned" => key_outcome.value = env_key.value
            /\ (env_key.set /\ env_key.value = Placeholder) =>
                   key_outcome.kind = "OpenAIKeyInvalidError"

\* the key "sk-test123456" was accepted and returned unchanged
C8_Witness ==
    /\ env_key.set
    /\ env_key.value = KeyFromTests
    /\ key_outcome = KeyReturned(KeyFromTests)

\* C9: a write of max_tokens with a value <= 0 raises InvalidMaxTokensError
\* and leaves the whole config as it was; a write of a positive integer is
\* accepted, retained, and changes max_tokens only.
C9_MaxTokensSetter ==
    cfg_write.attr = "max_tokens" =>
        IF cfg_write.tokens <= 0
        THEN /\ cfg_write.raised = "InvalidMaxTokensError"
             /\ cfg = cfg_prev
        ELSE /\ cfg_write.raised = ""
             /\ cfg.max_tokens = cfg_write.tokens
             /\ cfg.api_key = cfg_prev.api_key
             /\ cfg.model = cfg_prev.model
             /\ cfg.temperature = cfg_prev.temperature

\* the write of 0 over a config holding 500 was rejected and 500 is kept
C9_Witness ==
    /\ cfg_write.attr = "max_tokens"
    /\ cfg_write.tokens = 0
    /\ cfg_write.raised = "InvalidMaxTokensError"
    /\ cfg.max_tokens = 500

\* C10: a write of temperature outside [0.0, 2.0] raises
\* InvalidTemperatureError and leaves the whole config as it was; a write of
\* a value in [0.0, 2.0], the bounds included, is accepted and retained.
C10_TemperatureSetter ==
    cfg_write.attr = "temperature" =>
        IF cfg_write.temp[1] < 0 \/ cfg_write.temp[1] > 2 * cfg_write.temp[2]
        THEN /\ cfg_write.raised = "InvalidTemperatureError"
             /\ cfg = cfg_prev
        ELSE /\ cfg_write.raised = ""
             /\ cfg.temperature = cfg_write.temp
             /\ cfg.api_key = cfg_prev.api_key
             /\ cfg.model = cfg_prev.model
             /\ cfg.max_tokens = cfg_prev.max_tokens

\* the write of 2.0 was accepted over a config holding 1.0
C10_Witness ==
    /\ cfg_write.attr = "temperature"
    /\ cfg_write.temp = Ratio(20, 10)
    /\ cfg_write.raised = ""
    /\ cfg_prev.temperature = Ratio(10, 10)
    /\ cfg.temperature = Ratio(20, 10)

\* C11: after construction with any arguments and after any sequence of
\* setter writes, max_tokens is a positive integer and temperature lies in
\* [0.0, 2.0].
C11_ConfigAlwaysInRange ==
    /\ cfg.max_tokens > 0
    /\ RatioLe(Ratio(0, 1), cfg.temperature)
    /\ RatioLe(cfg.temperature, Ratio(2, 1))

-----------------------------------------------------------------------------
(* Properties of the image folder                                          *)

\* the regular files directly inside the folder whose extension is, up to
\* case, one of the supported ones
RecognizedFiles(f) ==
    { Join(FolderPath, e.name) : e \in
        { e \in f.entries :
            /\ ~e.is_dir
            /\ InList(Lower(Suffix(e.name)), SUPPORTED_EXTENSIONS) } }

\* a list is in strictly ascending order
Ascending(list) ==
    \A k \in 1..(Len(list) - 1) : StrLess(list[k], list[k + 1])

\* C13: get_image_files returns exactly the files directly inside the
\* folder with a supported extension (up to case), in ascending path order,
\* the same list on every call; it raises NoImageFilesError when there is
\* no such file and ImageFolderNotFoundError when the folder does not exist.
C13_GetImageFiles ==
    /\ listing # ListingIdle =>
           /\ folder.kind = "missing" <=> listing.kind = "ImageFolderNotFoundError"
           /\ (folder.kind = "dir" /\ RecognizedFiles(folder) = {}) <=>
                  listing.kind = "NoImageFilesError"
           /\ (folder.kind = "dir" /\ RecognizedFiles(folder) # {}) <=>
                  listing.kind = "returned"
           /\ listing.kind = "returned" =>
                  /\ { listing.files[k] : k \in 1..Len(listing.files) } =
                         RecognizedFiles(folder)
                  /\ Len(listing.files) = Cardinality(RecognizedFiles(folder))
                  /\ Ascending(listing.files)
    /\ listing_prev # ListingIdle => listing = listing_prev

-----------------------------------------------------------------------------
(* Properties of the settings                                              *)

\* the error kind Config() raises for each key of the tests
KeyFailure(k) == get_openai_api_key([set |-> TRUE, value |-> k]).kind

\* no entry of the folder, file or directory, has a supported extension
NoImageEntry(f) ==
    \A e \in f.entries : ~InList(Lower(Suffix(e.name)), SUPPORTED_EXTENSIONS)

-----------------------------------------------------------------------------
(* Properties of extract_all_info                                          *)

\* json.loads of the cleaned text of every answer
ParsedResponse == [w \in Worlds |-> JsonLoads(CleanContent(w.content))]

\* the parsed value is a list of dicts
ArrayOfObjects(v) == v.t = "list" /\ \A k \in 1..Len(v.s) : v.s[k].t = "dict"

\* every text of ArrayTexts, as it stands, parses as a JSON array of objects
ArrayTextsParse ==
    \A t \in ArrayTexts : JsonLoads(t).ok /\ ArrayOfObjects(JsonLoads(t).val)

\* C14: when a text that parses as a JSON array of objects is answered once
\* as it stands and once inside a json fence or a plain fence, with or
\* without whitespace around the fence and around the text, the extractor
\* returns the same records for the same image both times.
C14_FenceTransparent ==
    /\ ArrayTextsParse
    /\ \A j, k \in 1..Len(calls) :
           (/\ calls[j].image_path = calls[k].image_path
            /\ calls[j].world.readable
            /\ calls[j].world.api = "text"
            /\ calls[j].world.content \in ArrayTexts
            /\ calls[k].world.readable
            /\ calls[k].world.api = "text"
            /\ calls[k].world.content \in Fencings(calls[j].world.content))
           => /\ calls[j].result.kind = "return"
              /\ calls[k].result = calls[j].result

\* two rows answered bare, then inside a plain fence with line breaks and
\* padding: two records both times
C14_Witness ==
    /\ Len(calls) = 2
    /\ calls[1].image_path = calls[2].image_path
    /\ calls[1].world.content = TextTwoRows
    /\ calls[2].world.content = Wrap(TextTwoRows, Fence, <<"\n">>, <<" ", "\n">>)
    /\ Len(calls[1].result.records) = 2
    /\ calls[2].result.records = calls[1].result.records

\* C15: every failure of extract_all_info has one of two kinds.  A text that
\* json.loads rejects raises OpenAIAPIError naming the image path; every
\* other failure (unreadable image, API error, no choice, no content, valid
\* JSON that is not an array of objects) raises ImageProcessingError
\* carrying the cause and the image path; nothing else leaves the call.
C15_FailureKinds ==
    \A k \in 1..Len(calls) :
        LET w == calls[k].world
            r == calls[k].result
            text == w.readable /\ w.api = "text"
            parsed == ParsedResponse[w]
        IN  /\ r.kind \in {"return", "OpenAIAPIError", "ImageProcessingError"}
            /\ r.kind = "OpenAIAPIError" <=> (text /\ ~parsed.ok)
            /\ r.kind = "OpenAIAPIError" => r.image_path = calls[k].image_path
            /\ r.kind = "ImageProcessingError" <=>
                   \/ ~w.readable
                   \/ w.readable /\ w.api # "text"
                   \/ text /\ parsed.ok /\ ~ArrayOfObjects(parsed.val)
            /\ r.kind = "ImageProcessingError" =>
                   r.image_path = calls[k].image_path /\ r.cause # ""

\* the record's value is the object's value under key, "" without the key
CopiedFrom(obj, key, value) ==
    LET given == { obj.s[j][2] : j \in { j \in 1..Len(obj.s) : obj.s[j][1] = key } }
    IN  IF given = {} THEN value = PyStr(<<>>) ELSE value \in given

\* C16: when extract_all_info returns, it returns one record per object of
\* the parsed response, in response order; the record's filename is the base
\* name of the image path whatever the object holds under "filename", and
\* its email, firstname and name are the object's values, "" for a key the
\* object does not have.
C16_RecordsFollowResponse ==
    \A k \in 1..Len(calls) :
        LET r == calls[k].result
            parsed == ParsedResponse[calls[k].world]
        IN  (r.kind = "return" /\ parsed.val.t = "list") =>
                /\ Len(r.records) = Len(parsed.val.s)
                /\ \A n \in 1..Len(r.records) :
                       /\ DOMAIN r.records[n] =
                              {"filename", "email", "firstname", "name"}
                       /\ r.records[n].filename =
                              PyStr(PathName(calls[k].image_path))
                       /\ CopiedFrom(parsed.val.s[n], KeyEmail, r.records[n].email)
                       /\ CopiedFrom(parsed.val.s[n], KeyFirstname,
                                     r.records[n].firstname)
                       /\ CopiedFrom(parsed.val.s[n], KeyName, r.records[n].name)

\* the answer [{"filename":"x","email":"a"}] for d/a: one record, filename a
C16_Witness ==
    /\ Len(calls) >= 1
    /\ calls[1].image_path = <<"d", "/", "a">>
    /\ calls[1].world.content = Array1(RowOwnFilename)
    /\ calls[1].result.kind = "return"
    /\ calls[1].result.records =
           << [filename |-> PyStr(<<"a">>), email |-> PyStr(<<"a">>),
               firstname |-> PyStr(<<>>), name |-> PyStr(<<>>)] >>

-----------------------------------------------------------------------------
(* Properties of save_to_csv                                               *)

\* the header a reader expects for the field list: the field names in order
HeaderOf(flds) == [k \in 1..Len(flds) |-> FieldChars(flds[k])]

\* the row a reader expects for a record: per field the text of the
\* record's value, "" where the record has no such key
RowOf(flds, record) ==
    [k \in 1..Len(flds) |->
        IF flds[k] \in DOMAIN record
        THEN (IF record[flds[k]].t = "None" THEN <<>> ELSE record[flds[k]].s)
        ELSE <<>>]

KeysWithin(flds, record) ==
    \A key \in DOMAIN record : \E k \in 1..Len(flds) : flds[k] = key

\* C17: for a field list F and a list R of records with string values whose
\* keys are all in F, save_to_csv(R) succeeds, and reading the file back
\* gives the header F in order followed by one row per record, in order,
\* holding the record's value for each field and "" for a missing field.
C17_CsvRoundTrip ==
    (/\ saved # <<>>
     /\ csv_file.writable
     /\ \A n \in 1..Len(saved[1].results) :
            /\ KeysWithin(fields, saved[1].results[n])
            /\ \A key \in DOMAIN saved[1].results[n] :
                   saved[1].results[n][key].t = "str")
    => /\ saved[1].raised = ""
       /\ csv_file.exists
       /\ ReadCsv(csv_file.content) =
              <<HeaderOf(fields)>> \o
              [n \in 1..Len(saved[1].results) |-> RowOf(fields, saved[1].results[n])]

\* fields email, name; a record with a line break and a comma, then a
\* record without email and with quotes: both read back as they were
C17_Witness ==
    /\ fields = <<"email", "name">>
    /\ saved # <<>>
    /\ saved[1].raised = ""
    /\ saved[1].results =
           << [email |-> PyStr(<<"l", "\n", "m">>), name |-> PyStr(<<"x", ",", "y">>)],
              [name |-> PyStr(<<"\"", "q", "\"">>)] >>
    /\ ReadCsv(csv_file.content) =
           << <<KeyEmail, KeyName>>,
              << <<"l", "\n", "m">>, <<"x", ",", "y">> >>,
              << <<>>, <<"\"", "q", "\"">> >> >>

\* C18: after any sequence of save_to_csv calls on one path that can be
\* written, the file holds the header and the rows of the last call's list,
\* all of them and nothing else, whatever was there before; after a call with
\* the empty list it holds the header row only.
C18_SaveOverwrites ==
    (saved # <<>> /\ csv_file.writable) =>
        /\ csv_file.exists
        /\ ReadCsv(csv_file.content) =
               <<HeaderOf(fields)>> \o
               [n \in 1..Len(saved[1].results) |->
                    RowOf(fields, saved[1].results[n])]
        /\ saved[1].results = <<>> => csv_file.content = CsvRow(HeaderOf(fields))

-----------------------------------------------------------------------------
(* Properties of main                                                      *)

\* the run of main completed: every image was processed, the results were
\* saved and the summary was logged
RunCompleted ==
    /\ key_outcome.kind = "returned"
    /\ validated = ""
    /\ listing.kind = "returned"
    /\ pc = "summarised"
    /\ image_files = listing.files
    /\ Len(outcomes) = Len(image_files)
    /\ saved # <<>>
    /\ saved[1].raised = ""
    /\ summary # <<>>

\* C19: main returns 0 when the configuration is valid and the run completes,
\* also when some or all images failed; it returns 1 when a configuration
\* error, a KeyboardInterrupt or any other exception ends the try block; no
\* exception leaves main.
C19_ExitCodes ==
    mpc = "done" =>
        /\ exit_code \in {<<0>>, <<1>>}
        /\ RunCompleted /\ main_error = "" => exit_code = <<0>>
        /\ exit_code = <<0>> => RunCompleted /\ main_error = ""
        /\ main_error \in ConfigErrors \cup OtherExceptions
                          \cup {"KeyboardInterrupt"} => exit_code = <<1>>
        /\ main_error # "" =>
               main_error \in ConfigErrors \cup OtherExceptions
                              \cup {"KeyboardInterrupt"}

\* two images, both failed, and main returned 0
C19_Witness ==
    /\ mpc = "done"
    /\ exit_code = <<0>>
    /\ result[1].total_images = 2
    /\ result[1].successful_images = 0

\* the configuration fails: no usable key, no folder, or a folder without a
\* file of a recognized extension
ConfigurationFails ==
    \/ get_openai_api_key(env_key).kind # "returned"
    \/ folder.kind = "missing"
    \/ folder.kind = "dir" /\ RecognizedFiles(folder) = {}

\* C20: when the configuration fails, main exits with a non-zero code, no
\* request has been sent to the API and the output file is as it was before
\* the run.
C20_NothingDoneOnConfigFailure ==
    ConfigurationFails =>
        /\ \A k \in 1..Len(outcomes) : ~outcomes[k].requested
        /\ csv_file = csv_initial
        /\ mpc = "done" => exit_code = <<1>>

\* process_images has finished every image of the list and returned
ProcessingFinished ==
    /\ pc \in {"returned", "summarised"}
    /\ Len(outcomes) = Len(image_files)
    /\ result # <<>>

\* C21: in a run of main the output file is written once at most, by the one
\* save_to_csv call, which comes after process_images has finished every
\* image and before log_summary; until then, and in a run that an
\* interruption or an exception ends during processing, the file is as it
\* was before the run.
C21_SingleSaveAfterProcessing ==
    /\ saved = <<>> => csv_file = csv_initial /\ summary = <<>>
    /\ saved # <<>> =>
           /\ ProcessingFinished
           /\ saved[1].results = result[1].all_results
           /\ csv_file = save_to_csv(fields, csv_initial, saved[1].results).file
    /\ pc \in {"extract", "progress", "return", "raised"} =>
           csv_file = csv_initial

\* the first image gave a record, the run was interrupted during the second,
\* and the older output file is still what it was
C21_Witness ==
    /\ mpc = "done"
    /\ main_error = "KeyboardInterrupt"
    /\ pc = "raised"
    /\ Len(outcomes) = 1
    /\ all_results # <<>>
    /\ csv_initial.exists
    /\ csv_initial.writable
    /\ csv_file = csv_initial

-----------------------------------------------------------------------------
(* Properties of the requests of a process_images run                      *)

\* C22: in one process_images run every image of the list is handed to the
\* extractor once at most, in list order, so a failed or unparsable answer is
\* not asked for again; the call sends one request when the image could be
\* encoded and none when it could not; and the next image is begun only when
\* the outcome of the one before is recorded.
C22_OneRequestPerImage ==
    /\ Len(ExtractCalls) = Len(outcomes)
    /\ Len(outcomes) <= Len(image_files)
    /\ \A k \in 1..Len(outcomes) :
           /\ ExtractCalls[k].idx = k
           /\ ExtractCalls[k].arg = image_files[k]
           /\ outcomes[k].requested = worlds[k].readable
    /\ pc = "extract" =>
           /\ Len(outcomes) = i - 1
           /\ Len(marks) = i - 1
           /\ Len(all_results) = total_records
    /\ pc \in {"returned", "summarised"} => Len(outcomes) = Len(image_files)

\* two images: the first could not be read (no request), the second got an
\* API error (one request), and the run returned after two extractor calls
C22_Witness ==
    /\ pc = "returned"
    /\ Len(image_files) = 2
    /\ Len(ExtractCalls) = 2
    /\ ~outcomes[1].requested
    /\ outcomes[2].requested
    /\ outcomes[2].cause = "APIError"

-----------------------------------------------------------------------------
(* Properties of the fence cleaning                                        *)

\* the cleaning as it is stated: whitespace off, the one opening marker the
\* text begins with off, one closing marker off, whitespace off
OneOpeningFenceRemoved(raw) ==
    LET c0 == Strip(raw)
        c1 == IF StartsWith(c0, FenceJson) THEN DropFirst(c0, 7)
              ELSE IF StartsWith(c0, Fence) THEN DropFirst(c0, 3)
              ELSE c0
        c2 == IF EndsWith(c1, Fence) THEN DropLast(c1, 3) ELSE c1
    IN  Strip(c2)

\* for every answer of the world: the text the extractor parses, the text
\* the stated cleaning leaves, and whether json.loads takes the latter
Cleaned ==
    [w \in Worlds |->
        [by_code |-> CleanContent(w.content),
         as_stated |-> OneOpeningFenceRemoved(w.content),
         stated_parses |-> JsonLoads(OneOpeningFenceRemoved(w.content)).ok]]

\* C23: the text the extractor parses is the response text with surrounding
\* whitespace removed, then the single opening marker it begins with (the
\* json marker or the plain one, never both), then a single closing marker,
\* then whitespace again; so the call fails with a JSON parse error exactly
\* when the text cleaned in this way is not JSON.
C23_FenceCleaning ==
    \A k \in 1..Len(calls) :
        (calls[k].world.readable /\ calls[k].world.api = "text") =>
            /\ Cleaned[calls[k].world].by_code = Cleaned[calls[k].world].as_stated
            /\ (calls[k].result.kind = "OpenAIAPIError")
                   = ~Cleaned[calls[k].world].stated_parses

-----------------------------------------------------------------------------
(* Properties of the records and the field list                            *)

\* the field names of the list flds
FieldSet(flds) == { flds[k] : k \in 1..Len(flds) }

\* C24: whatever field list the processor was configured with, every record
\* the extractor returned has "filename" and requested fields as its only
\* keys, all of them in the field list, and save_to_csv takes the records of
\* process_images without raising.
C24_RecordsFitFieldList ==
    /\ \A k \in 1..Len(outcomes) :
           \A n \in 1..Len(outcomes[k].records) :
               /\ DOMAIN outcomes[k].records[n] \subseteq FieldSet(fields)
               /\ DOMAIN outcomes[k].records[n]
                      \subseteq {"filename"} \cup FieldSet(fields)
    /\ saved # <<>> => saved[1].raised = ""

-----------------------------------------------------------------------------
(* Properties of repeated process_images calls                             *)

RECURSIVE MarkedNamesUpTo(_)
\* the base names of the images among the first k of this call that were
\* recorded as failed
MarkedNamesUpTo(k) ==
    IF k = 0 THEN <<>>
    ELSE IF marks[k]
         THEN Append(MarkedNamesUpTo(k - 1), PathName(image_files[k]))
         ELSE MarkedNamesUpTo(k - 1)

\* the accumulators and the result hold what this call's images gave, and
\* nothing else
OnlyThisCall ==
    /\ Len(marks) = Len(outcomes)
    /\ all_results = KeptRecordsUpTo(Len(outcomes))
    /\ failed_images = MarkedNamesUpTo(Len(outcomes))
    /\ total_records = Len(all_results)
    /\ pc = "returned" =>
           result[1] = ProcessingResult(Len(image_files),
                           Len(image_files) - Len(MarkedNamesUpTo(Len(image_files))),
                           MarkedNamesUpTo(Len(image_files)),
                           Len(KeptRecordsUpTo(Len(image_files))),
                           KeptRecordsUpTo(Len(image_files)))

\* a step of process_images leaves the processor's fields, the output file
\* and the image list it was given as they are
CallFrame ==
    /\ fields' = fields
    /\ image_files' # image_files => pc \in {"idle", "returned"} /\ outcomes' = <<>>
    /\ csv_file' # csv_file => pc = "returned" /\ pc' = "returned"

\* C25: process_images keeps no state between calls.  Every call starts from
\* empty accumulators, so its ProcessingResult is made of this call's image
\* list and this call's extractor outcomes only, whatever an earlier call on
\* the same processor collected; and the call changes neither the
\* processor's fields and output file nor the image list it was given.
C25_NoStateBetweenCalls == []OnlyThisCall /\ [][CallFrame]_vars

\* the first call's record was saved; a later call, on one image without
\* rows, returned a result with no record and that image as failed
C25_Witness ==
    /\ saved # <<>>
    /\ saved[1].raised = ""
    /\ Len(saved[1].results) = 1
    /\ pc = "returned"
    /\ Len(image_files) = 1
    /\ outcomes[1].records = <<>>
    /\ result[1].all_results = <<>>
    /\ result[1].total_records = 0
    /\ Len(result[1].failed_images) = 1

=====
